---- MODULE Spec2Model ----
(***************************************************************************)
(* PC-Metrics: the simulator of simulate_pc_metrics.py (gaming-session     *)
(* state machine, thermal and fan dynamics, the driver loop of main() with *)
(* its sinks and its shutdown).                                            *)
(*                                                                         *)
(* Units.  The program computes in floats; the model computes in integers: *)
(*   temperatures      thousandths of a degree   (42.0 C   -> 42000)       *)
(*   fan speeds        thousandths of an RPM     (1200 RPM -> 1200000)     *)
(*   gaming intensity  thousandths               (0.1      -> 100)         *)
(*   probabilities     thousandths               (0.02     -> 20)          *)
(*   angles            thousandths of a radian                             *)
(* A product with a float rate (x * 0.12) is (x * 12) \div 100, rounded    *)
(* down to the unit.  A reading is rounded as get_sensor_data rounds it.   *)
(*                                                                         *)
(* Random draws.  A call of random.random / uniform / randint is modelled  *)
(* by the quantile q \in 0..MaxQ of the value it returns: quantile 0 is    *)
(* the low end of the range, MaxQ the high end.                            *)
(***************************************************************************)
EXTENDS Integers, Sequences, FiniteSets, TLC

\* ---------------------------------------------------------------- bounds
\* Quantiles of a random draw: 0..MaxQ.
MaxQ == 2
\* Ticks of a long run of the simulator (SpecSession, SpecDynamics).
MaxTicks == 206
\* Iterations of the driver loop of main (Spec).
MaxIter == 2
\* Ticks of the two lock-step runs (SpecTwoRuns).
MaxPairTicks == 2

Quantiles == 0..MaxQ

\* ------------------------------------------------------ config.py values
COMPONENT_IDLE_TEMPS == [cpu |-> 42000, gpu |-> 38000, ssd |-> 35000, motherboard |-> 33000]
COMPONENT_MAX_TEMPS == [cpu |-> 88000, gpu |-> 85000, ssd |-> 70000, motherboard |-> 60000]
\* The lower clamps written in simulate_temperature_changes.
COMPONENT_MIN_TEMPS == [cpu |-> 25000, gpu |-> 25000, ssd |-> 20000, motherboard |-> 20000]
FAN_IDLE_SPEEDS == [cpu_fan |-> 1200000, gpu_fan |-> 1000000, case_fan |-> 800000]
\* The upper clamps written in calculate_fan_speeds.
FAN_MAX_RPM == [cpu_fan |-> 4800000, gpu_fan |-> 4200000, case_fan |-> 2800000]
GAMING_SESSION_START_PROBABILITY == 20
GAMING_WARMUP_TIME == 30
GAMING_DURATION == 120
GAMING_COOLDOWN_RATE == 20
SENSOR_UPDATE_INTERVAL == 1

\* ---------------------------------------------------------------- helpers
Min(a, b) == IF a <= b THEN a ELSE b
Max(a, b) == IF a >= b THEN a ELSE b

\* random.random(): a value of [0, 1) in thousandths.
Random(q) == (999 * q) \div MaxQ
\* random.uniform(a, b) and random.randint(a, b).
Uniform(a, b, q) == a + ((b - a) * q) \div MaxQ
Randint(a, b, q) == a + ((b - a) * q) \div MaxQ

\* math.sin(x), x in thousandths of a radian, result in thousandths:
\* the argument is reduced to [0, 2 pi) and each half wave is Bhaskara's
\* rational approximation 16 y (pi - y) / (5 pi^2 - 4 y (pi - y)), which is
\* within 0.01 of the sine over the arguments the simulator uses.
Sin(x) ==
    LET pi == 3142
        r == x % (2 * pi)
        y == IF r <= pi THEN r ELSE r - pi
        p == y * (pi - y)
        h == (16 * p) \div ((5 * pi * pi - 4 * p) \div 1000)
    IN  IF r <= pi THEN h ELSE 0 - h

\* ------------------------------------------------------------------ state
VARIABLES
    sim,              \* the PCComponentSimulator object of main
    clock,            \* time.time() of the run, in seconds
    sensor_data,      \* the reading get_sensor_data returned last
    sim2,             \* a second, independent run: its simulator,
    clock2,           \*   its wall clock
    sensor_data2,     \*   and its last reading
    iteration_count,  \* main: completed iterations of the loop
    rng,              \* SpecDynamics: the quantile each draw site is held at
    pc,               \* main: the statement the driver is at
    aws_connected,    \* main: what aws_publisher.connect() returned
    local_logging,    \* main: what setup_local_logging() returned
    connected,        \* AWSIoTPublisher.connected
    log_file,         \* the content of LOCAL_LOG_FILE, as a sequence of tokens
    published,        \* the payloads handed to the publish channel
    console,          \* the iterations whose status block was printed
    tick_fail,        \* the sinks that failed in the iteration under way
    stop_cause,       \* why the loop ended: "none", "interrupt" or "error"
    shutdown,         \* calls made by the finally block
    sensor_history,   \* app.py: the readings the dashboard holds in memory
    current_sensor_data, \* app.py: the reading the dashboard shows
    content,          \* load_sensor_data: what its last read of the log returned
    monitor,          \* the monitor thread: where it is in load_sensor_data
    startup,          \* start_dashboard.main: its statement, what it found, its end
    claude_optimizer, \* app.py: the ClaudeAIOptimizer object
    advisory,         \* what the advisory channel does with the next request
    preference,       \* the preference tag of the recommendation request
    analysis,         \* the summary analyze_temperature_data returned last
    ai_recommendations, \* app.py: the recommendation generated last
    returned          \* what generate_ai_fan_curves returned last

simVars == <<sim, clock, sensor_data>>
pairVars == <<sim2, clock2, sensor_data2>>
mainVars == <<pc, aws_connected, local_logging, connected, log_file, published,
              console, tick_fail, stop_cause, shutdown>>
dashVars == <<sensor_history, current_sensor_data, content, monitor, startup>>
advisorVars == <<claude_optimizer, advisory, preference, analysis,
                 ai_recommendations, returned>>
appVars == <<dashVars, advisorVars>>
vars == <<sim, clock, sensor_data, sim2, clock2, sensor_data2, iteration_count,
          rng, pc, aws_connected, local_logging, connected, log_file, published,
          console, tick_fail, stop_cause, shutdown, sensor_history,
          current_sensor_data, content, monitor, startup, claude_optimizer, advisory,
          preference,
          analysis, ai_recommendations, returned>>

\* --------------------------------------------------- PCComponentSimulator
\* __init__
NewSimulator ==
    [cpu_temp         |-> COMPONENT_IDLE_TEMPS.cpu,
     gpu_temp         |-> COMPONENT_IDLE_TEMPS.gpu,
     ssd_temp         |-> COMPONENT_IDLE_TEMPS.ssd,
     motherboard_temp |-> COMPONENT_IDLE_TEMPS.motherboard,
     cpu_fan_rpm      |-> FAN_IDLE_SPEEDS.cpu_fan,
     gpu_fan_rpm      |-> FAN_IDLE_SPEEDS.gpu_fan,
     case_fan_rpm     |-> FAN_IDLE_SPEEDS.case_fan,
     gaming_session   |-> FALSE,
     gaming_intensity |-> 0,
     session_time     |-> 0,
     cooling_phase    |-> FALSE,
     ambient_temp     |-> 22000]

\* The idle branch: one Bernoulli trial.
StartsSession(q) == Random(q) < GAMING_SESSION_START_PROBABILITY

\* Mutants of StartSession: the start that forgets to leave the cooling phase,
\* and the start whose first intensity is read off the CPU temperature.
StartSessionKeepsCooling(self) ==
    [self EXCEPT !.gaming_session = TRUE,
                 !.session_time = 0,
                 !.gaming_intensity = 100]

StartSessionThermal(self) ==
    [self EXCEPT !.gaming_session = TRUE,
                 !.session_time = 0,
                 !.cooling_phase = FALSE,
                 !.gaming_intensity = 100 + (self.cpu_temp - COMPONENT_IDLE_TEMPS.cpu) \div 10]

\* Mutant of StartSession: the session starts with no load at all.
StartSessionNoLoad(self) ==
    [self EXCEPT !.gaming_session = TRUE,
                 !.session_time = 0,
                 !.cooling_phase = FALSE,
                 !.gaming_intensity = 0]

\* The assignments made when the trial succeeds.
StartSession(self) ==
    [self EXCEPT !.gaming_session = TRUE,
                 !.session_time = 0,
                 !.cooling_phase = FALSE,
                 !.gaming_intensity = 100]

\* The warmup branch: the linear ramp plus jitter, capped at 0.9.
WarmupIntensity(t, q) ==
    LET target_intensity == (t * 700) \div GAMING_WARMUP_TIME
    IN  Min(900, target_intensity + Uniform(-100, 100, q))

\* Mutant of ActiveIntensity: the sum of the sinusoids and the jitter, with
\* no clamp.
ActiveIntensityUnclamped(t, q) ==
    750 + (200 * Sin(t * 50)) \div 1000 + (150 * Sin(t * 300)) \div 1000
        + Uniform(-100, 150, q)

\* The intense branch: two sinusoids plus jitter, clamped to [0.5, 1.0].
ActiveIntensity(t, q) ==
    LET base_intensity  == 750 + (200 * Sin(t * 50)) \div 1000
        scene_variation == (150 * Sin(t * 300)) \div 1000
        random_spikes   == Uniform(-100, 150, q)
    IN  Max(500, Min(1000, base_intensity + scene_variation + random_spikes))

\* Mutants of CooldownIntensity: the decrement without its floor, the
\* decrement applied twice, and the decrement floored one step above 0.
CooldownIntensityFlooredAbove(i) == Max(GAMING_COOLDOWN_RATE, i - GAMING_COOLDOWN_RATE)

CooldownIntensityNoFloor(i) == i - GAMING_COOLDOWN_RATE

CooldownIntensityTwice(i) == Max(0, i - 2 * GAMING_COOLDOWN_RATE)

\* The cooling branch: one decrement, floored at 0.
CooldownIntensity(i) == Max(0, i - GAMING_COOLDOWN_RATE)

\* Mutant of EndSession: the age of the session is not reset.
EndSessionKeepsAge(self, i) ==
    [self EXCEPT !.gaming_intensity = i,
                 !.gaming_session = FALSE]

\* The end of the cooldown: the intensity has reached 0, the machine is idle
\* again.
EndSession(self, i) ==
    [self EXCEPT !.gaming_intensity = i,
                 !.gaming_session = FALSE,
                 !.session_time = 0]

\* Mutant of InWarmup: the warmup is one tick short.
InWarmupStrict(t) == t < GAMING_WARMUP_TIME

\* The two tests on the age of the session, after its increment: the warmup
\* branch, and (once that one has failed) the intense branch.
InWarmup(t) == t <= GAMING_WARMUP_TIME
InIntense(t) == t <= GAMING_WARMUP_TIME + GAMING_DURATION

\* update_gaming_session; q is the quantile of the one draw the call makes
\* (random.random when idle, random.uniform in warmup and in the intense
\* phase; the other branches draw nothing).
UpdateGamingSession(self, q) ==
    IF ~self.gaming_session
    THEN IF StartsSession(q) THEN StartSession(self) ELSE self
    ELSE LET t == self.session_time + 1 IN
         IF ~self.cooling_phase
         THEN IF InWarmup(t)
              THEN [self EXCEPT !.session_time = t,
                                !.gaming_intensity = WarmupIntensity(t, q)]
              ELSE IF InIntense(t)
              THEN [self EXCEPT !.session_time = t,
                                !.gaming_intensity = ActiveIntensity(t, q)]
              ELSE [self EXCEPT !.session_time = t,
                                !.cooling_phase = TRUE]
         ELSE LET i == CooldownIntensity(self.gaming_intensity) IN
              IF i <= 0
              THEN EndSession(self, i)
              ELSE [self EXCEPT !.session_time = t,
                                !.gaming_intensity = i]

\* Mutant of Clamp: the lower bound alone.
ClampNoUpper(lo, hi, x) == Max(lo, x)

\* max(lo, min(hi, x)): the clamp that ends every temperature and fan update.
Clamp(lo, hi, x) == Max(lo, Min(hi, x))

\* 2.0 * math.sin(time.time() * 0.0001)
AmbientVariation(now) == 2 * Sin(now \div 10)

\* One channel of simulate_temperature_changes: the first-order approach to the
\* target at rate/100 per tick, plus the noise drawn for the channel.
TempDelta(target, current, rate, noise) == ((target - current) * rate) \div 100 + noise

\* simulate_temperature_changes at wall-clock time now; qc, qg, qs, qm are the
\* quantiles of the four noise draws, in the order the code makes them.
SimulateTemperatureChanges(self, now, qc, qg, qs, qm) ==
    LET current_ambient  == self.ambient_temp + AmbientVariation(now)
        cpu_gaming_load  == self.gaming_intensity * 35
        gpu_gaming_load  == self.gaming_intensity * 40
        ssd_gaming_load  == self.gaming_intensity * 15
        motherboard_load == self.gaming_intensity * 12
        cpu_target == COMPONENT_IDLE_TEMPS.cpu + cpu_gaming_load + (current_ambient - 22000)
        cpu_change_rate == IF self.gaming_session THEN 12 ELSE 8
        gpu_target == COMPONENT_IDLE_TEMPS.gpu + gpu_gaming_load + (current_ambient - 22000)
        gpu_change_rate == IF self.gaming_session THEN 10 ELSE 6
        ssd_target == COMPONENT_IDLE_TEMPS.ssd + ssd_gaming_load + (current_ambient - 22000)
        mb_target == COMPONENT_IDLE_TEMPS.motherboard + motherboard_load + (current_ambient - 22000)
    IN  [self EXCEPT
           !.cpu_temp = Clamp(COMPONENT_MIN_TEMPS.cpu, COMPONENT_MAX_TEMPS.cpu,
               self.cpu_temp + TempDelta(cpu_target, self.cpu_temp, cpu_change_rate,
                                         Uniform(-1200, 1200, qc))),
           !.gpu_temp = Clamp(COMPONENT_MIN_TEMPS.gpu, COMPONENT_MAX_TEMPS.gpu,
               self.gpu_temp + TempDelta(gpu_target, self.gpu_temp, gpu_change_rate,
                                         Uniform(-1500, 1800, qg))),
           !.ssd_temp = Clamp(COMPONENT_MIN_TEMPS.ssd, COMPONENT_MAX_TEMPS.ssd,
               self.ssd_temp + TempDelta(ssd_target, self.ssd_temp, 6,
                                         Uniform(-600, 600, qs))),
           !.motherboard_temp = Clamp(COMPONENT_MIN_TEMPS.motherboard, COMPONENT_MAX_TEMPS.motherboard,
               self.motherboard_temp + TempDelta(mb_target, self.motherboard_temp, 5,
                                                 Uniform(-400, 400, qm)))]

\* The piecewise-linear target curves of calculate_fan_speeds.
CpuFanTarget(cpu_temp) ==
    IF cpu_temp < 45000 THEN 800000 + (cpu_temp - 40000) * 60
    ELSE IF cpu_temp < 65000 THEN 1100000 + (cpu_temp - 45000) * 85
    ELSE IF cpu_temp < 80000 THEN 2800000 + (cpu_temp - 65000) * 120
    ELSE 4600000 + (cpu_temp - 80000) * 50

\* Mutant of GpuFanTarget: the second segment starts below the end of the
\* first.
GpuFanTargetDips(gpu_temp) ==
    IF gpu_temp < 40000 THEN Max(0, 600000 + (gpu_temp - 35000) * 80)
    ELSE IF gpu_temp < 60000 THEN 900000 + (gpu_temp - 40000) * 85
    ELSE IF gpu_temp < 75000 THEN 2600000 + (gpu_temp - 60000) * 90
    ELSE 3950000 + (gpu_temp - 75000) * 60

GpuFanTarget(gpu_temp) ==
    IF gpu_temp < 40000 THEN Max(0, 600000 + (gpu_temp - 35000) * 80)
    ELSE IF gpu_temp < 60000 THEN 1200000 + (gpu_temp - 40000) * 70
    ELSE IF gpu_temp < 75000 THEN 2600000 + (gpu_temp - 60000) * 90
    ELSE 3950000 + (gpu_temp - 75000) * 60

CaseFanTarget(avg_temp) ==
    IF avg_temp < 45000 THEN 400000 + (avg_temp - 35000) * 25
    ELSE IF avg_temp < 65000 THEN 650000 + (avg_temp - 45000) * 40
    ELSE 1450000 + (avg_temp - 65000) * 55

\* Mutant of FanApproach: the fan jumps to its target.
FanJump(rpm, target) == target

\* rpm += (target - rpm) * fan_response_rate
FanApproach(rpm, target) == rpm + ((target - rpm) * 15) \div 100

\* The body of calculate_fan_speeds, given what the three random.randint calls
\* return (whole RPM).
FanSpeedsWithJitter(self, cpu_jitter, gpu_jitter, case_jitter) ==
    LET avg_temp == (self.cpu_temp + self.gpu_temp) \div 2
    IN  [self EXCEPT
           !.cpu_fan_rpm = Clamp(0, FAN_MAX_RPM.cpu_fan,
               FanApproach(self.cpu_fan_rpm, CpuFanTarget(self.cpu_temp))
                 + 1000 * cpu_jitter),
           !.gpu_fan_rpm = Clamp(0, FAN_MAX_RPM.gpu_fan,
               FanApproach(self.gpu_fan_rpm, GpuFanTarget(self.gpu_temp))
                 + 1000 * gpu_jitter),
           !.case_fan_rpm = Clamp(0, FAN_MAX_RPM.case_fan,
               FanApproach(self.case_fan_rpm, CaseFanTarget(avg_temp))
                 + 1000 * case_jitter)]

\* calculate_fan_speeds; qc, qg, qk are the quantiles of the three randint draws.
CalculateFanSpeeds(self, qc, qg, qk) ==
    FanSpeedsWithJitter(self, Randint(-25, 25, qc), Randint(-20, 20, qg),
                        Randint(-15, 15, qk))

\* round(x, 1) of a temperature (tenths of a degree), int(x) of a fan speed
\* (whole RPM), round(x, 2) of the intensity (hundredths).
Round1(x) == (x + 50) \div 100
IntRpm(x) == x \div 1000
Round2(x) == (x + 5) \div 10

\* Mutant of GetSensorData: the reading is assembled from the state the
\* simulator was constructed with, not from the state the updates left.
GetSensorDataBeforeUpdates(self, now) ==
    [timestamp        |-> now,
     device_id        |-> "GamingPC4",
     cpu_temp         |-> Round1(COMPONENT_IDLE_TEMPS.cpu),
     gpu_temp         |-> Round1(COMPONENT_IDLE_TEMPS.gpu),
     ssd_temp         |-> Round1(COMPONENT_IDLE_TEMPS.ssd),
     motherboard_temp |-> Round1(COMPONENT_IDLE_TEMPS.motherboard),
     cpu_fan_rpm      |-> IntRpm(FAN_IDLE_SPEEDS.cpu_fan),
     gpu_fan_rpm      |-> IntRpm(FAN_IDLE_SPEEDS.gpu_fan),
     case_fan_rpm     |-> IntRpm(FAN_IDLE_SPEEDS.case_fan),
     gaming_session   |-> FALSE,
     gaming_intensity |-> 0]

\* get_sensor_data at wall-clock time now.
GetSensorData(self, now) ==
    [timestamp        |-> now,
     device_id        |-> "GamingPC4",
     cpu_temp         |-> Round1(self.cpu_temp),
     gpu_temp         |-> Round1(self.gpu_temp),
     ssd_temp         |-> Round1(self.ssd_temp),
     motherboard_temp |-> Round1(self.motherboard_temp),
     cpu_fan_rpm      |-> IntRpm(self.cpu_fan_rpm),
     gpu_fan_rpm      |-> IntRpm(self.gpu_fan_rpm),
     case_fan_rpm     |-> IntRpm(self.case_fan_rpm),
     gaming_session   |-> self.gaming_session,
     gaming_intensity |-> Round2(self.gaming_intensity)]

\* The reading variable before the first call of get_sensor_data.
NoReading == GetSensorData(NewSimulator, 0)

\* The three state updates main makes in one iteration, in its order.
SimulateTick(self, now, qu, qn, qf) ==
    CalculateFanSpeeds(
        SimulateTemperatureChanges(UpdateGamingSession(self, qu), now, qn, qn, qn, qn),
        qf, qf, qf)

\* ------------------------------------------------------------ initial state
\* Wall-clock times a run may start at: the ambient sinusoid is at 0, at its
\* crest (+2 degrees) and at its trough (-2 degrees).
Clocks == {0, 15708, 47124}

NoDraws == [start |-> 0, jitter |-> 0, noise |-> 0, fan |-> 0]

\* main before its first statement: both objects constructed, nothing set up.
MainInit ==
    /\ pc = "setup_local_logging"
    /\ aws_connected = FALSE
    /\ local_logging = FALSE
    /\ connected = FALSE
    /\ log_file = <<>>
    /\ published = <<>>
    /\ console = <<>>
    /\ tick_fail = {}
    /\ stop_cause = "none"
    /\ shutdown = <<>>

\* main at the top of its loop with no sink set up (ENABLE_LOCAL_LOGGING off,
\* no AWS SDK): the simulator runs alone.
MainNoSinks ==
    /\ pc = "update_gaming_session"
    /\ aws_connected = FALSE
    /\ local_logging = FALSE
    /\ connected = FALSE
    /\ log_file = <<>>
    /\ published = <<>>
    /\ console = <<>>
    /\ tick_fail = {}
    /\ stop_cause = "none"
    /\ shutdown = <<>>

OneRunInit ==
    /\ sim = NewSimulator
    /\ sensor_data = NoReading
    /\ iteration_count = 0

NoSecondRun ==
    /\ sim2 = NewSimulator
    /\ clock2 = 0
    /\ sensor_data2 = NoReading

\* The empty dict {} (app.py initialises current_sensor_data and
\* ai_recommendations with it; analyze_temperature_data returns it).
EmptyDict == [k \in {} |-> 0]

\* start_dashboard.py has not been run.
NotStarted == [pc |-> "none"]

\* app.py after its module-level statements, lines 27-33: nothing loaded.
NoHistory ==
    /\ sensor_history = <<>>
    /\ current_sensor_data = EmptyDict
    /\ content = <<>>
    /\ monitor = "sleep"
    /\ startup = NotStarted

\* No recommendation has been asked for.
NoRequest ==
    /\ claude_optimizer = [use_simulation |-> TRUE]
    /\ advisory = [kind |-> "none"]
    /\ preference = "balanced"
    /\ analysis = EmptyDict
    /\ ai_recommendations = EmptyDict
    /\ returned = EmptyDict

\* The dashboard process is not running.
NoDashboard == NoHistory /\ NoRequest

\* ------------------------------------------------- the session machine alone
\* SpecSession: the iterations of main as the session machine sees them.
\* update_gaming_session reads and writes only gaming_session,
\* gaming_intensity, session_time and cooling_phase, and nothing else in the
\* loop writes them, so the temperature and fan steps are left to
\* SpecDynamics and the sinks to Spec; every draw is free at every tick.
InitSession ==
    /\ OneRunInit
    /\ clock = 0
    /\ rng = NoDraws
    /\ NoSecondRun
    /\ MainNoSinks
    /\ NoDashboard

SessionTick ==
    /\ iteration_count < MaxTicks
    /\ \E q \in Quantiles : sim' = UpdateGamingSession(sim, q)
    /\ sensor_data' = GetSensorData(sim', clock)
    /\ clock' = clock + SENSOR_UPDATE_INTERVAL
    /\ iteration_count' = iteration_count + 1
    /\ UNCHANGED <<rng, appVars, pairVars, mainVars>>

NextSession == SessionTick

SpecSession == InitSession /\ [][NextSession]_vars

\* SpecSessionLive: the same, with the loop of main going on: `while True`
\* makes the next iteration whenever one is possible.
SpecSessionLive == InitSession /\ [][NextSession]_vars /\ WF_vars(SessionTick)

\* ---------------------------------------------------- the simulator, long runs
\* SpecDynamics: whole ticks of the simulator (session, temperatures, fans,
\* reading) over long runs.  The run is one of the sustained draw sequences:
\* each draw site stays at the quantile rng gives it, which is what drives the
\* temperatures and the fans to their bounds.
InitDynamics ==
    /\ OneRunInit
    /\ clock \in Clocks
    /\ rng \in [start : Quantiles, jitter : Quantiles, noise : Quantiles, fan : Quantiles]
    /\ NoSecondRun
    /\ MainNoSinks
    /\ NoDashboard

DynamicsTick ==
    /\ iteration_count < MaxTicks
    /\ sim' = SimulateTick(sim, clock,
                           IF sim.gaming_session THEN rng.jitter ELSE rng.start,
                           rng.noise, rng.fan)
    /\ sensor_data' = GetSensorData(sim', clock)
    /\ clock' = clock + SENSOR_UPDATE_INTERVAL
    /\ iteration_count' = iteration_count + 1
    /\ UNCHANGED <<rng, appVars, pairVars, mainVars>>

NextDynamics == DynamicsTick

SpecDynamics == InitDynamics /\ [][NextDynamics]_vars

\* ------------------------------------------------------ two runs, same draws
\* SpecTwoRuns: two independent runs of the simulator started at wall-clock
\* times clock and clock2 and fed the same random draws (the same seed).
InitTwoRuns ==
    /\ OneRunInit
    /\ clock \in Clocks
    /\ rng = NoDraws
    /\ sim2 = NewSimulator
    /\ clock2 \in Clocks
    /\ sensor_data2 = NoReading
    /\ MainNoSinks
    /\ NoDashboard

TwoRunsTick ==
    /\ iteration_count < MaxPairTicks
    /\ \E qu, qd \in Quantiles :
         /\ sim' = SimulateTick(sim, clock, qu, qd, qd)
         /\ sim2' = SimulateTick(sim2, clock2, qu, qd, qd)
    /\ sensor_data' = GetSensorData(sim', clock)
    /\ sensor_data2' = GetSensorData(sim2', clock2)
    /\ clock' = clock + SENSOR_UPDATE_INTERVAL
    /\ clock2' = clock2 + SENSOR_UPDATE_INTERVAL
    /\ iteration_count' = iteration_count + 1
    /\ UNCHANGED <<rng, appVars, mainVars>>

NextTwoRuns == TwoRunsTick

SpecTwoRuns == InitTwoRuns /\ [][NextTwoRuns]_vars

\* ------------------------------------------------------------- the driver
\* The tokens log_file is made of: the bracket setup_local_logging writes, the
\* separator and the record log_data_locally writes, the bracket
\* finalize_local_log writes.
OpenBracket == [tok |-> "[", data |-> NoReading]
Separator == [tok |-> ",", data |-> NoReading]
CloseBracket == [tok |-> "]", data |-> NoReading]
Record(reading) == [tok |-> "record", data |-> reading]

\* The statements of the while loop, and those of the handlers and the
\* finally block.
LoopPcs == {"update_gaming_session", "simulate_temperature_changes",
            "calculate_fan_speeds", "get_sensor_data", "console", "publish",
            "log", "sleep"}
EndPcs == {"cleanup", "disconnect", "finalize", "done"}

\* setup_local_logging (ENABLE_LOCAL_LOGGING is True): the file is created with
\* the opening bracket, or the open fails and the function returns False.
SetupLocalLogging ==
    /\ pc = "setup_local_logging"
    /\ \/ /\ log_file' = <<OpenBracket>>
          /\ local_logging' = TRUE
       \/ /\ local_logging' = FALSE
          /\ UNCHANGED log_file
    /\ pc' = "connect"
    /\ UNCHANGED <<simVars, pairVars, iteration_count, rng, appVars, aws_connected,
                   connected, published, console, tick_fail, stop_cause, shutdown>>

\* main, lines 361-368, with AWSIoTPublisher.connect: the connection succeeds,
\* or there is no SDK, no client or the connect raises, and main goes on in
\* local mode.
Connect ==
    /\ pc = "connect"
    /\ \/ /\ connected' = TRUE
          /\ aws_connected' = TRUE
       \/ /\ aws_connected' = FALSE
          /\ UNCHANGED connected
    /\ pc' = "update_gaming_session"
    /\ UNCHANGED <<simVars, pairVars, iteration_count, rng, appVars, local_logging,
                   log_file, published, console, tick_fail, stop_cause, shutdown>>

\* pc_simulator.update_gaming_session()
UpdateStep ==
    /\ pc = "update_gaming_session"
    /\ iteration_count < MaxIter
    /\ \E q \in Quantiles : sim' = UpdateGamingSession(sim, q)
    /\ pc' = "simulate_temperature_changes"
    /\ UNCHANGED <<clock, sensor_data, pairVars, iteration_count, rng, appVars, aws_connected,
                   local_logging, connected, log_file, published, console,
                   tick_fail, stop_cause, shutdown>>

\* pc_simulator.simulate_temperature_changes(), the four noise draws at the
\* low end or at the high end of their ranges.
TemperatureStep ==
    /\ pc = "simulate_temperature_changes"
    /\ \E q \in {0, MaxQ} : sim' = SimulateTemperatureChanges(sim, clock, q, q, q, q)
    /\ pc' = "calculate_fan_speeds"
    /\ UNCHANGED <<clock, sensor_data, pairVars, iteration_count, rng, appVars, aws_connected,
                   local_logging, connected, log_file, published, console,
                   tick_fail, stop_cause, shutdown>>

\* pc_simulator.calculate_fan_speeds(); the fan jitter, which no sink and no
\* handler reads, is held at the middle quantile in the driver (it varies in
\* SpecDynamics and SpecTwoRuns).
FanStep ==
    /\ pc = "calculate_fan_speeds"
    /\ \E q \in {MaxQ \div 2} : sim' = CalculateFanSpeeds(sim, q, q, q)
    /\ pc' = "get_sensor_data"
    /\ UNCHANGED <<clock, sensor_data, pairVars, iteration_count, rng, appVars, aws_connected,
                   local_logging, connected, log_file, published, console,
                   tick_fail, stop_cause, shutdown>>

\* sensor_data = pc_simulator.get_sensor_data()
SnapshotStep ==
    /\ pc = "get_sensor_data"
    /\ sensor_data' = GetSensorData(sim, clock)
    /\ pc' = "console"
    /\ UNCHANGED <<sim, clock, pairVars, iteration_count, rng, appVars, aws_connected,
                   local_logging, connected, log_file, published, console,
                   tick_fail, stop_cause, shutdown>>

\* The console sink, lines 392-433 (ENABLE_CONSOLE_OUTPUT is True, so the
\* status block is printed in every iteration): the print succeeds or raises.
\* No try surrounds the print inside the loop, so what it raises leaves the
\* while statement for the except Exception clause of main, and the finally
\* block follows.
ConsoleStep ==
    /\ pc = "console"
    /\ \/ /\ console' = Append(console, sensor_data)
          /\ pc' = "publish"
          /\ UNCHANGED <<tick_fail, stop_cause>>
       \/ /\ tick_fail' = tick_fail \cup {"console"}
          /\ pc' = "cleanup"
          /\ stop_cause' = "error"
          /\ UNCHANGED console
    /\ UNCHANGED <<simVars, pairVars, iteration_count, rng, appVars, aws_connected,
                   local_logging, connected, log_file, published, shutdown>>

\* The publish sink: main's guard and AWSIoTPublisher.publish_data, which
\* returns False when not connected and catches what mqtt_client.publish raises.
PublishStep ==
    /\ pc = "publish"
    /\ IF aws_connected /\ connected
       THEN \/ /\ published' = Append(published, sensor_data)
               /\ UNCHANGED tick_fail
            \/ /\ tick_fail' = tick_fail \cup {"publish"}
               /\ UNCHANGED published
       ELSE UNCHANGED <<published, tick_fail>>
    /\ pc' = "log"
    /\ UNCHANGED <<simVars, pairVars, iteration_count, rng, appVars, aws_connected,
                   local_logging, connected, log_file, console, stop_cause, shutdown>>

\* log_data_locally(sensor_data, is_first_entry): the separator unless this is
\* the first entry, then the record; an exception of the open or of the write
\* is caught and the function returns False.
LogDataLocally(file, reading, is_first_entry) ==
    file \o (IF is_first_entry THEN <<>> ELSE <<Separator>>) \o <<Record(reading)>>

\* The local-log sink: main's guard and log_data_locally.
LogStep ==
    /\ pc = "log"
    /\ IF local_logging
       THEN \/ /\ log_file' = LogDataLocally(log_file, sensor_data, iteration_count = 0)
               /\ UNCHANGED tick_fail
            \/ /\ tick_fail' = tick_fail \cup {"log"}
               /\ UNCHANGED log_file
       ELSE UNCHANGED <<log_file, tick_fail>>
    /\ pc' = "sleep"
    /\ UNCHANGED <<simVars, pairVars, iteration_count, rng, appVars, aws_connected,
                   local_logging, connected, published, console, stop_cause, shutdown>>

\* The end of the iteration: iteration_count += 1, time.sleep(interval).
SleepStep ==
    /\ pc = "sleep"
    /\ iteration_count' = iteration_count + 1
    /\ clock' = clock + SENSOR_UPDATE_INTERVAL
    /\ tick_fail' = {}
    /\ pc' = "update_gaming_session"
    /\ UNCHANGED <<sim, sensor_data, pairVars, rng, appVars, aws_connected, local_logging,
                   connected, log_file, published, console, stop_cause, shutdown>>

\* Ctrl+C while the loop runs: KeyboardInterrupt leaves the loop for its
\* handler, and the finally block follows.
Interrupt ==
    /\ pc \in LoopPcs
    /\ stop_cause' = "interrupt"
    /\ pc' = "cleanup"
    /\ UNCHANGED <<simVars, pairVars, iteration_count, rng, appVars, aws_connected,
                   local_logging, connected, log_file, published, console,
                   tick_fail, shutdown>>

\* The finally block is entered.
Cleanup ==
    /\ pc = "cleanup"
    /\ pc' = "disconnect"
    /\ UNCHANGED <<simVars, pairVars, iteration_count, rng, appVars, aws_connected,
                   local_logging, connected, log_file, published, console,
                   tick_fail, stop_cause, shutdown>>

\* Mutant of AfterDisconnectError: the exception of the disconnect is not
\* caught and the finally block is left.
DisconnectErrorEscapes == "done"

\* Where the finally block goes when mqtt_client.disconnect raises: disconnect
\* catches the exception and returns, so the next statement of the block runs.
AfterDisconnectError == "finalize"

\* if aws_connected: aws_publisher.disconnect(), which sets connected to False,
\* or catches what mqtt_client.disconnect raises and leaves connected as it was.
DisconnectStep ==
    /\ pc = "disconnect"
    /\ IF aws_connected
       THEN IF connected
            THEN \/ /\ connected' = FALSE
                    /\ shutdown' = Append(shutdown, [call |-> "disconnect", ok |-> TRUE])
                    /\ pc' = "finalize"
                 \/ /\ UNCHANGED connected
                    /\ shutdown' = Append(shutdown, [call |-> "disconnect", ok |-> FALSE])
                    /\ pc' = AfterDisconnectError
            ELSE /\ UNCHANGED connected
                 /\ shutdown' = Append(shutdown, [call |-> "disconnect", ok |-> TRUE])
                 /\ pc' = "finalize"
       ELSE /\ UNCHANGED <<connected, shutdown>>
            /\ pc' = "finalize"
    /\ UNCHANGED <<simVars, pairVars, iteration_count, rng, appVars, aws_connected,
                   local_logging, log_file, published, console, tick_fail, stop_cause>>

\* if local_logging: finalize_local_log(), which appends the closing bracket
\* and catches what the open or the write raises.
FinalizeStep ==
    /\ pc = "finalize"
    /\ IF local_logging
       THEN \/ /\ log_file' = Append(log_file, CloseBracket)
               /\ shutdown' = Append(shutdown, [call |-> "finalize_local_log", ok |-> TRUE])
            \/ /\ UNCHANGED log_file
               /\ shutdown' = Append(shutdown, [call |-> "finalize_local_log", ok |-> FALSE])
       ELSE UNCHANGED <<log_file, shutdown>>
    /\ pc' = "done"
    /\ UNCHANGED <<simVars, pairVars, iteration_count, rng, appVars, aws_connected,
                   local_logging, connected, published, console, tick_fail, stop_cause>>

Init ==
    /\ OneRunInit
    /\ clock = 0
    /\ rng = NoDraws
    /\ NoSecondRun
    /\ MainInit
    /\ NoDashboard

Next ==
    \/ SetupLocalLogging
    \/ Connect
    \/ UpdateStep
    \/ TemperatureStep
    \/ FanStep
    \/ SnapshotStep
    \/ ConsoleStep
    \/ PublishStep
    \/ LogStep
    \/ SleepStep
    \/ Interrupt
    \/ Cleanup
    \/ DisconnectStep
    \/ FinalizeStep

Spec == Init /\ [][Next]_vars

\* ------------------------------------------------- the text of the log file
\* log_file is the sequence of chunks written to LOCAL_LOG_FILE.  The text of
\* a chunk: "[\n" (OpenBracket), ",\n" (Separator), "\n]" (CloseBracket), and
\* for a record "  " followed by json.dumps(sensor_data, indent=2) with every
\* line indented by two more spaces: a line "{", one line per key, a line "}".

\* The keys of the dict get_sensor_data builds, in its order.
Keys ==
    <<"timestamp", "device_id", "cpu_temp", "gpu_temp", "ssd_temp",
      "motherboard_temp", "cpu_fan_rpm", "gpu_fan_rpm", "case_fan_rpm",
      "gaming_session", "gaming_intensity">>

\* json.dumps of a reading: its members, one per line of the text.
Dumps(reading) == [i \in 1..Len(Keys) |-> [key |-> Keys[i], value |-> reading[Keys[i]]]]

\* json.loads of the members of one object: the dict they denote.
Loads(members) ==
    [k \in {members[i].key : i \in DOMAIN members} |->
        members[CHOOSE i \in DOMAIN members : members[i].key = k].value]

\* The lines of the text of a record: "{", the members, "}".
RecordLines == Len(Keys) + 2

\* A record in the layout load_sensor_data_fallback looks for, which is not
\* the layout log_data_locally writes: the whole object on one line, followed
\* by a newline.
JsonLine(reading) == [tok |-> "line", data |-> reading]

\* What log_data_locally leaves in the file when its write is cut short: the
\* first cut lines of the text of the record (1 <= cut < RecordLines).
Torn(reading, cut) == [tok |-> "torn", data |-> reading, cut |-> cut]

\* The last character of the text of a chunk, white space aside.
LastChar(chunk) ==
    IF chunk.tok \in {"record", "line"} THEN "}"
    ELSE IF chunk.tok = "torn"
    THEN IF chunk.cut = 1 THEN "{"
         ELSE IF chunk.cut <= Len(Keys) THEN ","
         ELSE "0"
    ELSE chunk.tok

\* content.endswith(c) after content.strip().
EndsWith(text, c) == text # <<>> /\ LastChar(text[Len(text)]) = c

\* content[:-1] when content ends with a comma: the separator goes; a torn
\* record that loses the comma of its last line is a torn record still.
DropComma(text) ==
    IF text[Len(text)].tok = "," THEN SubSeq(text, 1, Len(text) - 1) ELSE text

\* json.loads of the text of the file.  The text is a JSON array exactly when
\* it is "[", then nothing or complete records with one "," between each two,
\* then "]"; the value is then the list of the dicts of the records.
JsonLoads(text) ==
    LET n == Len(text)
        inner == SubSeq(text, 2, n - 1)
        ok == /\ n >= 2
              /\ text[1].tok = "["
              /\ text[n].tok = "]"
              /\ \/ inner = <<>>
                 \/ /\ Len(inner) % 2 = 1
                    /\ \A i \in 1..Len(inner) :
                          IF i % 2 = 1 THEN inner[i].tok \in {"record", "line"}
                          ELSE inner[i].tok = ","
    IN  [ok |-> ok,
         data |-> IF ok
                  THEN [j \in 1..((Len(inner) + 1) \div 2) |->
                            Loads(Dumps(inner[2 * j - 1].data))]
                  ELSE <<>>]

\* One line of the text, as line.strip() leaves it: its first and its last
\* character, and whether the line (less a trailing comma) is by itself the
\* text of one JSON object, with the dict it denotes.
Line(first, last) == [first |-> first, last |-> last, whole |-> FALSE, value |-> EmptyDict]
Blank == Line("", "")

\* Two pieces of text on the same line.
Join(a, b) ==
    IF a = Blank THEN b
    ELSE IF b = Blank THEN a
    ELSE Line(a.first, b.last)

\* The lines of the text of a record, indentation stripped.
RecordText(reading) ==
    [i \in 1..RecordLines |->
        IF i = 1 THEN Line("{", "{")
        ELSE IF i = RecordLines THEN Line("}", "}")
        ELSE IF i = RecordLines - 1 THEN Line("\"", "0")
        ELSE Line("\"", ",")]

\* The pieces of lines a chunk adds to the text: the first continues the line
\* the text ended in, every other one starts a new line.
ChunkText(chunk) ==
    IF chunk.tok = "record" THEN RecordText(chunk.data)
    ELSE IF chunk.tok = "line"
    THEN <<[first |-> "{", last |-> "}", whole |-> TRUE,
            value |-> Loads(Dumps(chunk.data))], Blank>>
    ELSE IF chunk.tok = "torn" THEN SubSeq(RecordText(chunk.data), 1, chunk.cut)
    ELSE IF chunk.tok = "]" THEN <<Blank, Line("]", "]")>>
    ELSE <<Line(chunk.tok, chunk.tok), Blank>>

\* content.split('\n'), each line stripped: the lines of the text, put
\* together by halves (the last line of the first half goes on in the first
\* line of the second).
RECURSIVE LinesOf(_, _, _)
LinesOf(text, lo, hi) ==
    IF lo > hi THEN <<Blank>>
    ELSE IF lo = hi THEN ChunkText(text[lo])
    ELSE LET mid == (lo + hi) \div 2
             before == LinesOf(text, lo, mid)
             pieces == LinesOf(text, mid + 1, hi)
         IN  SubSeq(before, 1, Len(before) - 1)
               \o <<Join(before[Len(before)], pieces[1])>>
               \o Tail(pieces)
FileLines(text) == LinesOf(text, 1, Len(text))

\* load_sensor_data_fallback: the objects of the lines that start with "{" and
\* end with "}" or with ",", and that json.loads accepts (less the comma).
LoadSensorDataFallback(text) ==
    LET lines == FileLines(text)
        Accepted(l) == l.first = "{" /\ (l.last = "}" \/ l.last = ",") /\ l.whole
        json_objects == SelectSeq(lines, Accepted)
    IN  [i \in 1..Len(json_objects) |-> json_objects[i].value]

\* The slice of line 64 of app.py: data[-1000:] if len(data) > 1000 else data.
RetentionBound == 1000
Retain(data) ==
    IF Len(data) > RetentionBound
    THEN SubSeq(data, Len(data) - RetentionBound + 1, Len(data))
    ELSE data

\* Mutant of CompleteJson: the closing bracket is added and the trailing comma
\* is left in place.
CompleteJsonKeepsComma(text) ==
    IF text # <<>> /\ ~EndsWith(text, "]") THEN Append(text, CloseBracket) ELSE text

\* load_sensor_data, lines 53-57: a text that does not end with "]" loses its
\* trailing comma, if it has one, and gets "\n]" appended.
CompleteJson(text) ==
    IF text # <<>> /\ ~EndsWith(text, "]")
    THEN Append(IF EndsWith(text, ",") THEN DropComma(text) ELSE text, CloseBracket)
    ELSE text

\* What load_sensor_data assigns to sensor_history, given the text it read
\* (<<>> is the file that does not exist): line 64 on the normal path, line 73
\* when there is no file, line 78 when json.loads raises.
HistoryOf(text) ==
    IF text = <<>> THEN <<>>
    ELSE LET data == JsonLoads(CompleteJson(text))
         IN  IF data.ok THEN Retain(data.data) ELSE LoadSensorDataFallback(text)

\* What it then assigns to current_sensor_data, given the history it has just
\* assigned: lines 66-67 on the normal path (no assignment when the history
\* is empty), line 74 when there is no file, lines 79-83 after the fallback.
CurrentOf(text, history, current) ==
    IF history # <<>> THEN history[Len(history)]
    ELSE IF text # <<>> /\ JsonLoads(CompleteJson(text)).ok THEN current
    ELSE EmptyDict

\* load_sensor_data, from its read of the file to its last assignment.
LoadSensorData ==
    /\ monitor = "sleep"
    /\ content' = log_file
    /\ sensor_history' = HistoryOf(log_file)
    /\ current_sensor_data' = CurrentOf(log_file, sensor_history', current_sensor_data)
    /\ UNCHANGED <<monitor, startup>>
    /\ UNCHANGED <<simVars, pairVars, iteration_count, rng, mainVars, advisorVars>>

\* ------------------------------------------- the log, its writer, its reader
\* SpecReader: the dashboard process loads the log while the simulator process
\* writes it.  Of the simulator the file shows the writes only, so its
\* iteration is the three updates (every draw at a fixed quantile), the
\* snapshot and the local-log sink; the reader may load between any two
\* writes.

\* Records one run of the simulator appends.
MaxRecords == 3

\* Where a write cut short stops, in lines of the text of the record: before
\* the record (the separator alone is written), after the line "{", after the
\* first member.
TornCuts == {0, 1, 2}

\* The log an earlier run of RetentionBound + 1 iterations left behind, its
\* closing bracket not written.
LongLog ==
    <<OpenBracket>> \o
    [i \in 1..(2 * (RetentionBound + 1) - 1) |->
        IF i % 2 = 1 THEN Record(GetSensorData(NewSimulator, (i - 1) \div 2))
        ELSE Separator]

\* main has returned and has left the file behind.
MainEnded(file) ==
    /\ pc = "done"
    /\ aws_connected = FALSE
    /\ local_logging = TRUE
    /\ connected = FALSE
    /\ log_file = file
    /\ published = <<>>
    /\ console = <<>>
    /\ tick_fail = {}
    /\ stop_cause = "interrupt"
    /\ shutdown = <<>>

\* A log of RetentionBound + 1 readings, one object per line and no brackets.
JsonLinesLog ==
    [i \in 1..(RetentionBound + 1) |-> JsonLine(GetSensorData(NewSimulator, i - 1))]

\* main has run with ENABLE_LOCAL_LOGGING off and has returned: the file at
\* LOCAL_LOG_FILE is not of its writing.
MainEndedWithoutLog(file) ==
    /\ pc = "done"
    /\ aws_connected = FALSE
    /\ local_logging = FALSE
    /\ connected = FALSE
    /\ log_file = file
    /\ published = <<>>
    /\ console = <<>>
    /\ tick_fail = {}
    /\ stop_cause = "interrupt"
    /\ shutdown = <<>>

InitReader ==
    /\ OneRunInit
    /\ clock = 0
    /\ rng = NoDraws
    /\ NoSecondRun
    /\ NoDashboard
    /\ \/ MainInit
       \/ MainEnded(LongLog)
       \/ MainEnded(Append(LongLog, CloseBracket))
       \/ MainEndedWithoutLog(JsonLinesLog)

\* The simulator starts: setup_local_logging creates the file with "[\n".
WriterSetup ==
    /\ pc = "setup_local_logging"
    /\ log_file' = <<OpenBracket>>
    /\ local_logging' = TRUE
    /\ pc' = "log"
    /\ UNCHANGED <<simVars, pairVars, iteration_count, rng, appVars, aws_connected,
                   connected, published, console, tick_fail, stop_cause, shutdown>>

\* One iteration up to its local-log sink: the updates, the snapshot, and
\* log_data_locally, whose text reaches the file whole, or not at all (the open
\* raises), or in part: the separator and the first lines of the record, with
\* the rest of the write still to come.
WriterAppend ==
    /\ pc = "log"
    /\ iteration_count < MaxRecords
    /\ sim' = SimulateTick(sim, clock, 0, MaxQ \div 2, MaxQ \div 2)
    /\ sensor_data' = GetSensorData(sim', clock)
    /\ \/ /\ log_file' = LogDataLocally(log_file, sensor_data', iteration_count = 0)
          /\ pc' = "sleep"
       \/ /\ UNCHANGED log_file
          /\ pc' = "sleep"
       \/ /\ \E cut \in TornCuts :
                log_file' = log_file
                    \o (IF iteration_count = 0 THEN <<>> ELSE <<Separator>>)
                    \o (IF cut = 0 THEN <<>> ELSE <<Torn(sensor_data', cut)>>)
          /\ pc' = "log_rest"
    /\ UNCHANGED <<clock, pairVars, iteration_count, rng, appVars, aws_connected,
                   local_logging, connected, published, console, tick_fail,
                   stop_cause, shutdown>>

\* The rest of a write that reached the file in part: it arrives and the
\* record is whole, or the write raises (log_data_locally catches it) and the
\* record stays torn.
WriterAppendRest ==
    /\ pc = "log_rest"
    /\ \/ log_file' =
             IF log_file # <<>> /\ log_file[Len(log_file)].tok = "torn"
             THEN [log_file EXCEPT ![Len(log_file)] = Record(sensor_data)]
             ELSE Append(log_file, Record(sensor_data))
       \/ UNCHANGED log_file
    /\ pc' = "sleep"
    /\ UNCHANGED <<simVars, pairVars, iteration_count, rng, appVars, aws_connected,
                   local_logging, connected, published, console, tick_fail,
                   stop_cause, shutdown>>

\* The end of the iteration: iteration_count += 1, time.sleep(interval).
WriterSleep ==
    /\ pc = "sleep"
    /\ iteration_count' = iteration_count + 1
    /\ clock' = clock + SENSOR_UPDATE_INTERVAL
    /\ pc' = "log"
    /\ UNCHANGED <<sim, sensor_data, pairVars, rng, appVars, aws_connected,
                   local_logging, connected, log_file, published, console,
                   tick_fail, stop_cause, shutdown>>

\* Ctrl+C: the finally block runs finalize_local_log, which appends "\n]".
WriterFinalize ==
    /\ pc \in {"log", "log_rest", "sleep"}
    /\ log_file' = Append(log_file, CloseBracket)
    /\ stop_cause' = "interrupt"
    /\ pc' = "done"
    /\ UNCHANGED <<simVars, pairVars, iteration_count, rng, appVars, aws_connected,
                   local_logging, connected, published, console, tick_fail, shutdown>>

NextReader ==
    \/ WriterSetup
    \/ WriterAppend
    \/ WriterAppendRest
    \/ WriterSleep
    \/ WriterFinalize
    \/ LoadSensorData

SpecReader == InitReader /\ [][NextReader]_vars

\* ------------------------------------------------------ ClaudeAIOptimizer
\* Units.  A summary keeps temperatures in thousandths of a degree, fan speeds
\* in thousandths of an RPM and intensities in ten-thousandths, that is 1/100
\* of the unit of the readings (tenths, whole RPM, hundredths); an average is
\* rounded down to that unit, which leaves every comparison of an average with
\* a threshold exact for windows of up to 100 readings.  Setpoints of a fan
\* curve are whole RPM.

\* sum(values), added by halves.
RECURSIVE SumRange(_, _, _)
SumRange(values, lo, hi) ==
    IF lo > hi THEN 0
    ELSE IF lo = hi THEN values[lo]
    ELSE LET mid == (lo + hi) \div 2
         IN  SumRange(values, lo, mid) + SumRange(values, mid + 1, hi)
Sum(values) == SumRange(values, 1, Len(values))

MaxOf(values) == CHOOSE x \in {values[i] : i \in DOMAIN values} :
                    \A i \in DOMAIN values : x >= values[i]
MinOf(values) == CHOOSE x \in {values[i] : i \in DOMAIN values} :
                    \A i \in DOMAIN values : x <= values[i]

\* sum(values) / len(values)
Mean(values) == (100 * Sum(values)) \div Len(values)

\* The integer square root, by bisection of lo..hi.
RECURSIVE Sqrt(_, _, _)
Sqrt(v, lo, hi) ==
    IF lo >= hi THEN lo
    ELSE LET mid == (lo + hi + 1) \div 2
         IN  IF mid * mid <= v THEN Sqrt(v, mid, hi) ELSE Sqrt(v, lo, mid - 1)

\* _calculate_std: the population standard deviation (the variance is taken
\* about the mean; it is computed here from the offsets to the minimum).
CalculateStd(values) ==
    IF values = <<>> THEN 0
    ELSE LET n == Len(values)
             lo == MinOf(values)
             d == [i \in 1..n |-> values[i] - lo]
             sq == [i \in 1..n |-> d[i] * d[i]]
             v == n * Sum(sq) - Sum(d) * Sum(d)
         IN  (100 * Sqrt(v, 0, 40000)) \div n

\* (mutant of _calculate_time_span: the span from the first reading to the
\* last)
CalculateTimeSpanFirstToLast(readings) ==
    IF Len(readings) < 2 THEN 0
    ELSE readings[Len(readings)].timestamp - readings[1].timestamp

\* _calculate_time_span.  Hours are kept in units of 1/3600 of an hour, so
\* that time_span_seconds / 3600 is the number of seconds.
CalculateTimeSpan(readings) ==
    IF Len(readings) < 2 THEN 0
    ELSE LET timestamps == [i \in DOMAIN readings |-> readings[i].timestamp]
         IN  MaxOf(timestamps) - MinOf(timestamps)

\* analyze_temperature_data
AnalyzeTemperatureData(readings) ==
    IF readings = <<>> THEN EmptyDict
    ELSE LET Column(key) == [i \in DOMAIN readings |-> readings[i][key]]
             Stats(key) == [avg |-> Mean(Column(key)),
                            max |-> 100 * MaxOf(Column(key)),
                            min |-> 100 * MinOf(Column(key)),
                            std |-> CalculateStd(Column(key))]
             FanStats(key) == [avg |-> (1000 * Sum(Column(key))) \div Len(readings),
                               max |-> 1000 * MaxOf(Column(key)),
                               min |-> 1000 * MinOf(Column(key))]
             gaming_sessions ==
                 Len(SelectSeq(readings, LAMBDA d : d.gaming_session))
         IN  [cpu         |-> Stats("cpu_temp"),
              gpu         |-> Stats("gpu_temp"),
              ssd         |-> Stats("ssd_temp"),
              motherboard |-> Stats("motherboard_temp"),
              fans        |-> [cpu_fan  |-> FanStats("cpu_fan_rpm"),
                               gpu_fan  |-> FanStats("gpu_fan_rpm"),
                               case_fan |-> FanStats("case_fan_rpm")],
              gaming      |-> [sessions |-> gaming_sessions,
                               avg_intensity |-> Mean(Column("gaming_intensity")),
                               gaming_percentage |->
                                   (gaming_sessions * 100) \div Len(readings)],
              data_points |-> Len(readings),
              time_span_hours |-> CalculateTimeSpan(readings)]

\* The preference tags, and the base_curves table of
\* _generate_simulated_curves.
Preferences == {"balanced", "best_temps", "most_quiet"}
Fans == {"cpu_fan", "gpu_fan", "case_fan"}
base_curves ==
    [best_temps |-> [cpu_fan  |-> <<800, 1400, 2200, 3600, 4500>>,
                     gpu_fan  |-> <<0, 1200, 2400, 3900, 4200>>,
                     case_fan |-> <<600, 1000, 1600, 2400, 2800>>],
     most_quiet |-> [cpu_fan  |-> <<600, 1000, 1600, 2400, 3200>>,
                     gpu_fan  |-> <<0, 800, 1800, 3000, 3400>>,
                     case_fan |-> <<400, 700, 1200, 1800, 2200>>],
     balanced   |-> [cpu_fan  |-> <<700, 1200, 1900, 3000, 3800>>,
                     gpu_fan  |-> <<0, 1000, 2100, 3400, 3800>>,
                     case_fan |-> <<500, 850, 1400, 2100, 2500>>]]

\* analysis.get(group, {}).get(field, 0)
Get(summary, group, field) ==
    IF group \in DOMAIN summary THEN summary[group][field] ELSE 0

\* [rpm + offset for rpm in curve]
Raise(curve, offset) == [i \in DOMAIN curve |-> curve[i] + offset]

\* What a call returns when an exception leaves it.
Raised(exception) == [raised |-> exception]


\* (mutant of CpuRunsHot: the bump is given from the threshold on)
CpuRunsHotFromThreshold(summary) == Get(summary, "cpu", "avg") >= 70000

\* analysis.get('cpu', {}).get('avg', 0) > 70, and the like
CpuRunsHot(summary) == Get(summary, "cpu", "avg") > 70000
GpuRunsHot(summary) == Get(summary, "gpu", "avg") > 75000
GamingIsIntense(summary) == Get(summary, "gaming", "avg_intensity") > 7000

\* _generate_simulated_curves.  base_curves[preference] raises KeyError for
\* a tag that is not in the table.  The advice texts are kept as the branch
\* each of them takes; the timestamp of the recommendation is left out.
GenerateSimulatedCurves(summary, tag) ==
    IF tag \notin DOMAIN base_curves THEN Raised("KeyError")
    ELSE LET base == base_curves[tag]
             curves ==
                 [cpu_fan  |-> IF CpuRunsHot(summary)
                               THEN Raise(base.cpu_fan, 200) ELSE base.cpu_fan,
                  gpu_fan  |-> IF GpuRunsHot(summary)
                               THEN Raise(base.gpu_fan, 200) ELSE base.gpu_fan,
                  case_fan |-> IF GamingIsIntense(summary)
                               THEN Raise(base.case_fan, 150) ELSE base.case_fan]
         IN  [preference |-> tag,
              fan_curves |-> curves,
              analysis |-> summary,
              recommendations |->
                  [cpu |-> IF CpuRunsHot(summary)
                           THEN "aggressive cooling recommended"
                           ELSE "current cooling adequate",
                   gpu |-> IF Get(summary, "gpu", "max") > 80000
                           THEN "enhanced cooling suggested"
                           ELSE "cooling performance good",
                   gaming |-> IF Get(summary, "gaming", "gaming_percentage") > 30
                              THEN "optimized for gaming workloads"
                              ELSE "general usage optimization"],
              ai_generated |-> FALSE]

\* What comes back from the remote advisory for one request:
\*   kind "connection_error"  requests.post raises,
\*   kind "silent"            the service never answers,
\*   kind "status"            an answer with a status code other than 200,
\*   kind "bad_envelope"      status 200, but the body is not JSON or has no
\*                            content[0].text,
\*   kind "text"              status 200 and a text, described by `text`:
\*        json "none" (no braces in it), "invalid" (the braces do not hold
\*        JSON) or "object"; for an object, whether it has the key fan_curves
\*        and its value, and what its key analysis holds ("absent", "mapping"
\*        or "text").
\* kind "none" is the state before any request is arranged.
Answer(kind) == [kind |-> kind,
                 text |-> [json |-> "none", has_fan_curves |-> FALSE,
                           fan_curves |-> EmptyDict, analysis |-> "absent"]]
TextAnswer(json, has_fan_curves, fan_curves, claude_analysis) ==
    [kind |-> "text",
     text |-> [json |-> json, has_fan_curves |-> has_fan_curves,
               fan_curves |-> fan_curves, analysis |-> claude_analysis]]

\* (mutant of _parse_claude_response: the local fallback of an answer that
\* could not be parsed keeps the mark of a remote recommendation)
ParseClaudeResponseMarksFallback(response, summary, tag) ==
    IF response.json = "object" /\ response.analysis # "text"
    THEN [preference |-> tag,
          fan_curves |-> IF response.has_fan_curves
                         THEN response.fan_curves ELSE EmptyDict,
          analysis |-> summary,
          claude_analysis |-> response.analysis,
          ai_generated |-> TRUE]
    ELSE LET local == GenerateSimulatedCurves(summary, tag)
         IN  IF "ai_generated" \in DOMAIN local
             THEN [local EXCEPT !.ai_generated = TRUE] ELSE local

\* _parse_claude_response.  No braces raises ValueError, braces that hold no
\* JSON raise JSONDecodeError, an analysis that is no mapping raises
\* AttributeError at its .get: all three are caught and answered by the local
\* policy.  A text between '{' and '}' that parses is an object, and its
\* fan_curves value is passed on as it is.
ParseClaudeResponse(response, summary, tag) ==
    IF response.json = "object" /\ response.analysis # "text"
    THEN [preference |-> tag,
          fan_curves |-> IF response.has_fan_curves
                         THEN response.fan_curves ELSE EmptyDict,
          analysis |-> summary,
          claude_analysis |-> response.analysis,
          ai_generated |-> TRUE]
    ELSE GenerateSimulatedCurves(summary, tag)

\* requests.post(..., timeout=30)
RequestTimeout == 30

\* The caller of a request that never returns.
Blocked == [blocked |-> TRUE]

\* What a finished call leaves in `returned`: which function was called, and
\* what its caller got.
Return(call, value) == [call |-> call, value |-> value]

\* _build_claude_prompt reads analysis['cpu']['avg'] and the other summary
\* fields by subscript: the empty summary raises KeyError.
BuildClaudePromptRaises(summary) == summary = EmptyDict

\* (mutant of _generate_claude_curves: a status other than 200 is raised to
\* the caller)
GenerateClaudeCurvesRaisesStatus(answer, summary, tag) ==
    IF BuildClaudePromptRaises(summary) THEN GenerateSimulatedCurves(summary, tag)
    ELSE CASE answer.kind = "connection_error" ->
                  GenerateSimulatedCurves(summary, tag)
           [] answer.kind = "silent" ->
                  IF RequestTimeout > 0
                  THEN GenerateSimulatedCurves(summary, tag) ELSE Blocked
           [] answer.kind = "status" -> Raised("HTTPError")
           [] answer.kind = "bad_envelope" ->
                  GenerateSimulatedCurves(summary, tag)
           [] OTHER -> ParseClaudeResponse(answer.text, summary, tag)

\* _generate_claude_curves: everything is inside one try, whose handler
\* answers with the local policy (which may itself raise, outside the try).
GenerateClaudeCurves(answer, summary, tag) ==
    IF BuildClaudePromptRaises(summary) THEN GenerateSimulatedCurves(summary, tag)
    ELSE CASE answer.kind = "connection_error" ->
                  GenerateSimulatedCurves(summary, tag)
           [] answer.kind = "silent" ->
                  IF RequestTimeout > 0
                  THEN GenerateSimulatedCurves(summary, tag) ELSE Blocked
           [] answer.kind = "status" ->
                  GenerateSimulatedCurves(summary, tag)
           [] answer.kind = "bad_envelope" ->
                  GenerateSimulatedCurves(summary, tag)
           [] OTHER -> ParseClaudeResponse(answer.text, summary, tag)

\* generate_fan_curves
GenerateFanCurves(self, answer, summary, tag) ==
    IF self.use_simulation
    THEN GenerateSimulatedCurves(summary, tag)
    ELSE GenerateClaudeCurves(answer, summary, tag)

\* sensor_history[-100:] if len(sensor_history) >= 100 else sensor_history
SampleSize == 100
Sample(history) ==
    IF Len(history) >= SampleSize
    THEN SubSeq(history, Len(history) - SampleSize + 1, Len(history))
    ELSE history

NoDataError == [error |-> "No data available for analysis"]

\* (mutant of generate_ai_fan_curves: the empty sample is not turned away)
GenerateAiFanCurvesUnguarded ==
    LET summary == AnalyzeTemperatureData(Sample(sensor_history))
        result == GenerateFanCurves(claude_optimizer, advisory, summary, preference)
    IN  /\ advisory.kind # "none"
        /\ returned = EmptyDict
        /\ returned' = Return("generate_ai_fan_curves", result)
        /\ analysis' = summary
        /\ ai_recommendations' =
               IF "raised" \in DOMAIN result \/ "blocked" \in DOMAIN result
               THEN ai_recommendations ELSE result
        /\ UNCHANGED <<simVars, pairVars, iteration_count, rng, mainVars, dashVars,
                       claude_optimizer, advisory, preference>>

\* generate_ai_fan_curves(preference), one whole call: `returned` is what its
\* caller gets.  An exception or a request that never returns leaves
\* ai_recommendations as it was.
GenerateAiFanCurves ==
    /\ advisory.kind # "none"
    /\ returned = EmptyDict
    /\ IF Sample(sensor_history) = <<>>
       THEN /\ returned' = Return("generate_ai_fan_curves", NoDataError)
            /\ UNCHANGED <<analysis, ai_recommendations>>
       ELSE LET summary == AnalyzeTemperatureData(Sample(sensor_history))
                result == GenerateFanCurves(claude_optimizer, advisory,
                                            summary, preference)
            IN  /\ returned' = Return("generate_ai_fan_curves", result)
                /\ analysis' = summary
                /\ ai_recommendations' =
                       IF "raised" \in DOMAIN result \/ "blocked" \in DOMAIN result
                       THEN ai_recommendations ELSE result
    /\ UNCHANGED <<simVars, pairVars, iteration_count, rng, mainVars, dashVars,
                   claude_optimizer, advisory, preference>>

\* The example usage of claude_ai.py: the optimizer used directly, the window
\* analysed and the summary handed to generate_fan_curves as it comes.
OptimizerMain ==
    LET summary == AnalyzeTemperatureData(sensor_history)
    IN  /\ advisory.kind # "none"
        /\ returned = EmptyDict
        /\ analysis' = summary
        /\ returned' = Return("generate_fan_curves",
                               GenerateFanCurves(claude_optimizer, advisory,
                                                 summary, preference))
        /\ UNCHANGED <<simVars, pairVars, iteration_count, rng, mainVars, dashVars,
                       claude_optimizer, advisory, preference, ai_recommendations>>


\* ---------------------------------------------------------- SpecRecommender
\* The dashboard has loaded a closed log and is asked once for a
\* recommendation.  The log holds a window of n readings around given levels:
\* the temperatures swing by `spread` tenths about their level from one
\* reading to the next (CPU and GPU in opposite directions; no swing for the
\* CPU held at 80 degrees), and of every five readings `full` are at full
\* intensity and the others at half.  The levels put the averages on the
\* thresholds (70.0, 75.0, 0.7) and just above them; the readings whose
\* average is on a threshold are exact binary fractions, so that the
\* floating-point sum of the code is the exact sum computed here.  A window of SampleSize + 1 readings makes the sample differ from the
\* history.
WindowLengths == {0, 1, SampleSize, SampleSize + 1}
CpuLevels == {[cpu |-> 700, spread |-> 10], [cpu |-> 701, spread |-> 10],
              [cpu |-> 800, spread |-> 0]}
GpuLevels == {750, 751}
FullOfFive == {2, 3}

Swing(i) == IF i % 2 = 1 THEN 1 ELSE -1

Window(n, cpu, gpu, full, spread) ==
    [i \in 1..n |->
        [timestamp        |-> 2 * i,
         device_id        |-> "GamingPC4",
         cpu_temp         |-> cpu + spread * Swing(i),
         gpu_temp         |-> gpu - spread * Swing(i),
         ssd_temp         |-> 450,
         motherboard_temp |-> 400,
         cpu_fan_rpm      |-> 2000 + 10 * Swing(i),
         gpu_fan_rpm      |-> 1800,
         case_fan_rpm     |-> 1200,
         gaming_session   |-> TRUE,
         gaming_intensity |-> IF i % 5 \in 1..full THEN 100 ELSE 50]]

\* Timestamps that are not in ascending order (the readings are stamped with
\* int(time.time()), the wall clock, which may be set back during a run), and
\* two readings of the same second.
Stamps == {<<40, 10, 30>>, <<30, 40, 10>>, <<10, 30, 40>>, <<7, 7>>}
Stamped(stamps) ==
    [i \in DOMAIN stamps |->
        [Window(Len(stamps), 800, 750, 3, 0)[i] EXCEPT !.timestamp = stamps[i]]]

Windows ==
    {<<>>} \cup
    {Window(n, level.cpu, gpu, full, level.spread) :
        n \in WindowLengths \ {0}, level \in CpuLevels, gpu \in GpuLevels,
        full \in FullOfFive} \cup
    {Stamped(stamps) : stamps \in Stamps}

\* The closed log of a run that wrote the readings of a window.
LogOf(window) ==
    <<OpenBracket>> \o
    [i \in 1..(2 * Len(window) - 1) |->
        IF i % 2 = 1 THEN Record(window[(i + 1) \div 2]) ELSE Separator] \o
    <<CloseBracket>>

\* Curves a remote answer may carry: well-formed ones, and the three wrong
\* shapes (a fan missing, a curve of three setpoints, a negative setpoint).
GoodCurves ==
    [cpu_fan  |-> <<900, 1300, 2000, 3100, 3900>>,
     gpu_fan  |-> <<0, 1100, 2200, 3500, 3900>>,
     case_fan |-> <<500, 900, 1500, 2200, 2600>>]
TwoFanCurves ==
    [cpu_fan  |-> <<900, 1300, 2000, 3100, 3900>>,
     gpu_fan  |-> <<0, 1100, 2200, 3500, 3900>>]
ShortCurves == [GoodCurves EXCEPT !.cpu_fan = <<900, 2000, 3900>>]
NegativeCurves == [GoodCurves EXCEPT !.gpu_fan = <<-100, 1100, 2200, 3500, 3900>>]

Advisories ==
    {Answer("connection_error"), Answer("silent"), Answer("status"),
     Answer("bad_envelope"),
     TextAnswer("none", FALSE, EmptyDict, "absent"),
     TextAnswer("invalid", FALSE, EmptyDict, "absent"),
     TextAnswer("object", TRUE, GoodCurves, "mapping"),
     TextAnswer("object", TRUE, GoodCurves, "absent"),
     TextAnswer("object", TRUE, GoodCurves, "text"),
     TextAnswer("object", FALSE, EmptyDict, "mapping"),
     TextAnswer("object", TRUE, TwoFanCurves, "mapping"),
     TextAnswer("object", TRUE, ShortCurves, "mapping"),
     TextAnswer("object", TRUE, NegativeCurves, "mapping")}

\* The tags a request may carry: the three of the table, and one that is not
\* in it (api_ai_recommendations passes on whatever the request holds).
RequestedPreferences == Preferences \cup {"turbo"}

InitRecommender ==
    /\ OneRunInit
    /\ clock = 0
    /\ rng = NoDraws
    /\ NoSecondRun
    /\ \E window \in Windows :
          /\ MainEnded(LogOf(window))
          /\ content = LogOf(window)
          /\ monitor = "sleep"
          /\ startup = NotStarted
          /\ sensor_history = Retain(JsonLoads(CompleteJson(content)).data)
    /\ current_sensor_data =
           IF sensor_history = <<>> THEN EmptyDict
           ELSE sensor_history[Len(sensor_history)]
    /\ preference \in RequestedPreferences
    /\ \/ /\ claude_optimizer = [use_simulation |-> TRUE]
          /\ advisory = Answer("connection_error")
       \/ /\ claude_optimizer = [use_simulation |-> FALSE]
          /\ advisory \in Advisories
    /\ analysis = EmptyDict
    /\ ai_recommendations = EmptyDict
    /\ returned = EmptyDict

NextRecommender ==
    \/ GenerateAiFanCurves
    \/ OptimizerMain

SpecRecommender == InitRecommender /\ [][NextRecommender]_vars


\* ------------------------------------------------------------ SpecDashboard
\* The dashboard process: the monitor thread reloads the log, the routes
\* answer queries from what is in memory.  Of the simulator process the
\* dashboard sees the file only, in one of the states a run leaves it in
\* between two loads: missing, just created, with complete records (with or
\* without the trailing separator), with a record partly written, closed.
FirstReading == GetSensorData(NewSimulator, 100)
SecondReading == GetSensorData(NewSimulator, 160)
DashboardLogs ==
    {<<>>,
     <<OpenBracket>>,
     <<OpenBracket, Torn(FirstReading, 2)>>,
     <<OpenBracket, Record(FirstReading)>>,
     <<OpenBracket, Record(FirstReading), Separator>>,
     <<OpenBracket, Record(FirstReading), Separator, Torn(SecondReading, 1)>>,
     <<OpenBracket, Record(FirstReading), Separator, Record(SecondReading)>>,
     <<OpenBracket, Record(FirstReading), Separator, Record(SecondReading),
       CloseBracket>>}

\* time.time() at the dashboard.
DashboardClock == 200

\* Where main is when the file is in the given state.
MainAt(file) ==
    [pc |-> IF file = <<>> THEN "setup_local_logging"
            ELSE IF file[Len(file)] = CloseBracket THEN "done" ELSE "sleep",
     local_logging |-> file # <<>>,
     stop_cause |-> IF file # <<>> /\ file[Len(file)] = CloseBracket
                    THEN "interrupt" ELSE "none"]

\* The query string of /api/history_data: no minutes (30 is the default), a
\* number, or a value int() does not accept.
HistoryQueries ==
    {[given |-> FALSE, numeric |-> TRUE, minutes |-> 0],
     [given |-> TRUE, numeric |-> TRUE, minutes |-> 1],
     [given |-> TRUE, numeric |-> FALSE, minutes |-> 0]}

InitDashboard ==
    /\ OneRunInit
    /\ clock = DashboardClock
    /\ rng = NoDraws
    /\ NoSecondRun
    /\ NoHistory
    /\ log_file \in DashboardLogs
    /\ pc = MainAt(log_file).pc
    /\ local_logging = MainAt(log_file).local_logging
    /\ stop_cause = MainAt(log_file).stop_cause
    /\ aws_connected = FALSE
    /\ connected = FALSE
    /\ published = <<>>
    /\ console = <<>>
    /\ tick_fail = {}
    /\ shutdown = <<>>
    /\ preference \in {"balanced", "turbo"}
    /\ \/ /\ claude_optimizer = [use_simulation |-> TRUE]
          /\ advisory = Answer("connection_error")
       \/ /\ claude_optimizer = [use_simulation |-> FALSE]
          /\ advisory \in {Answer("status"),
                           TextAnswer("object", TRUE, GoodCurves, "mapping")}
    /\ analysis = EmptyDict
    /\ ai_recommendations = EmptyDict
    /\ returned = EmptyDict

\* The simulator process moves on (or is started anew, or its file is
\* removed) between two loads.
LogChanges ==
    /\ \E file \in DashboardLogs \ {log_file} :
          /\ log_file' = file
          /\ pc' = MainAt(file).pc
          /\ local_logging' = MainAt(file).local_logging
          /\ stop_cause' = MainAt(file).stop_cause
    /\ UNCHANGED <<simVars, pairVars, iteration_count, rng, appVars, aws_connected,
                   connected, published, console, tick_fail, shutdown>>

\* /api/current_data.  Of the answer the model keeps current_data (not the
\* AWS status, the component names and the alerts).
ApiCurrentData ==
    /\ returned' = Return("api_current_data",
                          [status |-> 200, current_data |-> current_sensor_data])
    /\ UNCHANGED <<simVars, pairVars, iteration_count, rng, mainVars, dashVars,
                   claude_optimizer, advisory, preference, analysis,
                   ai_recommendations>>

\* /api/history_data: the readings stamped within the last `minutes` minutes.
\* int() of a value that is no number raises ValueError, which the route does
\* not catch: the answer is the server's 500.
ApiHistoryData ==
    /\ \E query \in HistoryQueries :
          IF ~query.numeric
          THEN returned' = Return("api_history_data",
                                  [status |-> 500, error |-> "ValueError"])
          ELSE LET minutes == IF query.given THEN query.minutes ELSE 30
                   cutoff_time == clock - minutes * 60
                   filtered_data ==
                       SelectSeq(sensor_history,
                                 LAMBDA d : d.timestamp >= cutoff_time)
               IN  returned' = Return("api_history_data",
                                      [status |-> 200,
                                       history |-> filtered_data,
                                       total_points |-> Len(filtered_data)])
    /\ UNCHANGED <<simVars, pairVars, iteration_count, rng, mainVars, dashVars,
                   claude_optimizer, advisory, preference, analysis,
                   ai_recommendations>>

\* /api/ai_recommendations with the preference of the request:
\* generate_ai_fan_curves inside a try whose handler answers 500.
ApiAiRecommendations ==
    /\ IF Sample(sensor_history) = <<>>
       THEN /\ returned' = Return("api_ai_recommendations",
                                  [status |-> 200, success |-> TRUE,
                                   recommendations |-> NoDataError])
            /\ UNCHANGED <<analysis, ai_recommendations>>
       ELSE LET summary == AnalyzeTemperatureData(Sample(sensor_history))
                result == GenerateFanCurves(claude_optimizer, advisory,
                                            summary, preference)
            IN  /\ analysis' = summary
                /\ IF "raised" \in DOMAIN result
                   THEN /\ returned' = Return("api_ai_recommendations",
                                              [status |-> 500, success |-> FALSE,
                                               error |-> result.raised])
                        /\ UNCHANGED ai_recommendations
                   ELSE /\ returned' = Return("api_ai_recommendations",
                                              [status |-> 200, success |-> TRUE,
                                               recommendations |-> result])
                        /\ ai_recommendations' = result
    /\ UNCHANGED <<simVars, pairVars, iteration_count, rng, mainVars, dashVars,
                   claude_optimizer, advisory, preference>>

NextDashboard ==
    \/ LogChanges
    \/ LoadSensorData
    \/ ApiCurrentData
    \/ ApiHistoryData
    \/ ApiAiRecommendations

SpecDashboard == InitDashboard /\ [][NextDashboard]_vars

\* ------------------------------------------------- the fans, temperature held
\* SpecFans: calculate_fan_speeds called tick after tick on a simulator whose
\* temperatures are held (simulate_temperature_changes is not called) and
\* whose random.randint returns 0, from fan speeds anywhere in their ranges.
\* Ticks of a run with the temperature held.
MaxFanTicks == 12

\* The temperatures held: the bounds of each range, the idle values, and
\* values on each segment of the target curves.
HeldCpuTemps == {COMPONENT_MIN_TEMPS.cpu, COMPONENT_IDLE_TEMPS.cpu, 55000, 72000,
                 84000, COMPONENT_MAX_TEMPS.cpu}
HeldGpuTemps == {COMPONENT_MIN_TEMPS.gpu, COMPONENT_IDLE_TEMPS.gpu, 66000,
                 COMPONENT_MAX_TEMPS.gpu}

\* Where the fans start: stopped, at their idle speeds, at their maxima.
FanStarts == {[cpu_fan |-> 0, gpu_fan |-> 0, case_fan |-> 0], FAN_IDLE_SPEEDS, FAN_MAX_RPM}

InitFans ==
    /\ \E cpu \in HeldCpuTemps, gpu \in HeldGpuTemps, fans \in FanStarts :
         sim = [NewSimulator EXCEPT !.cpu_temp = cpu, !.gpu_temp = gpu,
                                    !.cpu_fan_rpm = fans.cpu_fan,
                                    !.gpu_fan_rpm = fans.gpu_fan,
                                    !.case_fan_rpm = fans.case_fan]
    /\ sensor_data = NoReading
    /\ iteration_count = 0
    /\ clock = 0
    /\ rng = NoDraws
    /\ NoSecondRun
    /\ MainNoSinks
    /\ NoDashboard

FanTick ==
    /\ iteration_count < MaxFanTicks
    /\ sim' = FanSpeedsWithJitter(sim, 0, 0, 0)
    /\ sensor_data' = GetSensorData(sim', clock)
    /\ clock' = clock + SENSOR_UPDATE_INTERVAL
    /\ iteration_count' = iteration_count + 1
    /\ UNCHANGED <<rng, appVars, pairVars, mainVars>>

NextFans == FanTick

SpecFans == InitFans /\ [][NextFans]_vars

\* ------------------------------------------------------- the target curves
\* SpecCurves: calculate_fan_speeds on a simulator whose temperatures lie
\* anywhere in the ranges simulate_temperature_changes keeps them in: every
\* whole degree, and the last thousandth of a degree below each breakpoint of
\* a curve.
\* Calls of calculate_fan_speeds in a run.
MaxCurveTicks == 1

CpuBreakpoints == {45000, 65000, 80000}
GpuBreakpoints == {40000, 60000, 75000}
CaseBreakpoints == {45000, 65000}

Degrees(lo, hi) == {1000 * d : d \in (lo \div 1000)..(hi \div 1000)}
JustBelow(breakpoints) == {b - 1 : b \in breakpoints}

CpuTemps == Degrees(COMPONENT_MIN_TEMPS.cpu, COMPONENT_MAX_TEMPS.cpu) \cup JustBelow(CpuBreakpoints)
GpuTemps == Degrees(COMPONENT_MIN_TEMPS.gpu, COMPONENT_MAX_TEMPS.gpu) \cup JustBelow(GpuBreakpoints)

InitCurves ==
    /\ \E cpu \in CpuTemps, gpu \in GpuTemps :
         sim = [NewSimulator EXCEPT !.cpu_temp = cpu, !.gpu_temp = gpu]
    /\ sensor_data = NoReading
    /\ iteration_count = 0
    /\ clock = 0
    /\ rng = NoDraws
    /\ NoSecondRun
    /\ MainNoSinks
    /\ NoDashboard

CurveTick ==
    /\ iteration_count < MaxCurveTicks
    /\ sim' = FanSpeedsWithJitter(sim, 0, 0, 0)
    /\ sensor_data' = GetSensorData(sim', clock)
    /\ clock' = clock + SENSOR_UPDATE_INTERVAL
    /\ iteration_count' = iteration_count + 1
    /\ UNCHANGED <<rng, appVars, pairVars, mainVars>>

NextCurves == CurveTick

SpecCurves == InitCurves /\ [][NextCurves]_vars

\* --------------------------------------- the monitor thread and the routes
\* SpecMonitor: background_data_monitor runs load_sensor_data in its own
\* thread while the routes are served in others.  No lock guards the two
\* globals, so a route may run between any two statements of the load: after
\* the read of the file, after the assignment to sensor_history, after the
\* assignment to current_sensor_data.
MonitorRead ==
    /\ monitor = "sleep"
    /\ content' = log_file
    /\ monitor' = "read"
    /\ UNCHANGED <<sensor_history, current_sensor_data, startup>>
    /\ UNCHANGED <<simVars, pairVars, iteration_count, rng, mainVars, advisorVars>>

MonitorSetHistory ==
    /\ monitor = "read"
    /\ sensor_history' = HistoryOf(content)
    /\ monitor' = "history_set"
    /\ UNCHANGED <<current_sensor_data, content, startup>>
    /\ UNCHANGED <<simVars, pairVars, iteration_count, rng, mainVars, advisorVars>>

MonitorSetCurrent ==
    /\ monitor = "history_set"
    /\ current_sensor_data' = CurrentOf(content, sensor_history, current_sensor_data)
    /\ monitor' = "sleep"
    /\ UNCHANGED <<sensor_history, content, startup>>
    /\ UNCHANGED <<simVars, pairVars, iteration_count, rng, mainVars, advisorVars>>

NextMonitor ==
    \/ LogChanges
    \/ MonitorRead
    \/ MonitorSetHistory
    \/ MonitorSetCurrent
    \/ ApiCurrentData
    \/ ApiHistoryData

SpecMonitor == InitDashboard /\ [][NextMonitor]_vars

\* ------------------------------------------------------ start_dashboard.py
\* SpecStartup: start_dashboard.main from its first statement to its end, on
\* every state of the log and of the installation (packages, template, API
\* key, certificates) and for both ends of the server.

\* The names bound at module level in start_dashboard.py: its imports and its
\* four functions.
StartupGlobals ==
    {"os", "sys", "subprocess", "time", "json", "Path", "check_requirements",
     "check_dependencies", "check_claude_api", "main"}

\* What main finds installed, and how socketio.run ends: by Ctrl+C or by an
\* exception.
StartupEnvs ==
    [packages : BOOLEAN, template : BOOLEAN, claude_key : BOOLEAN,
     certificates : BOOLEAN, serving : {"KeyboardInterrupt", "Exception"}]

\* check_requirements: False when the log or the template is missing; a log
\* that json.loads rejects is reported and accepted, as is a short one.  (A
\* log of length 0, which is also refused, is no state of DashboardLogs.)
CheckRequirements(file, env) == file # <<>> /\ env.template

InitStartup ==
    /\ OneRunInit
    /\ clock = DashboardClock
    /\ rng = NoDraws
    /\ NoSecondRun
    /\ sensor_history = <<>>
    /\ current_sensor_data = EmptyDict
    /\ content = <<>>
    /\ monitor = "sleep"
    /\ NoRequest
    /\ log_file \in DashboardLogs
    /\ pc = MainAt(log_file).pc
    /\ local_logging = MainAt(log_file).local_logging
    /\ stop_cause = MainAt(log_file).stop_cause
    /\ aws_connected = FALSE
    /\ connected = FALSE
    /\ published = <<>>
    /\ console = <<>>
    /\ tick_fail = {}
    /\ shutdown = <<>>
    /\ \E env \in StartupEnvs :
          startup = [pc |-> "check_dependencies", env |-> env, locals |-> {},
                     dependencies |-> FALSE, requirements |-> FALSE,
                     server |-> "not started", result |-> "none"]

StartupFrame ==
    UNCHANGED <<simVars, pairVars, iteration_count, rng, mainVars, advisorVars,
                sensor_history, current_sensor_data, content, monitor>>

\* if not check_dependencies(): return 1
StartupDependencies ==
    /\ startup.pc = "check_dependencies"
    /\ startup' = IF startup.env.packages
                  THEN [startup EXCEPT !.dependencies = TRUE,
                                       !.pc = "check_requirements"]
                  ELSE [startup EXCEPT !.pc = "done", !.result = "returned 1"]
    /\ StartupFrame

\* if not check_requirements(): return 1
StartupRequirements ==
    /\ startup.pc = "check_requirements"
    /\ startup' = IF CheckRequirements(log_file, startup.env)
                  THEN [startup EXCEPT !.requirements = TRUE,
                                       !.pc = "check_claude_api"]
                  ELSE [startup EXCEPT !.pc = "done", !.result = "returned 1"]
    /\ StartupFrame

\* check_claude_api(): reads the environment into a local of its own, prints,
\* and returns None; nothing is bound in main.
StartupClaudeApi ==
    /\ startup.pc = "check_claude_api"
    /\ startup' = [startup EXCEPT !.pc = "announce"]
    /\ StartupFrame

\* The rest of main: cert_files and aws_configured are bound, the feature list
\* is printed, which evaluates the name claude_key, and the server is started
\* inside the try.  A name bound neither in main nor at module level raises
\* NameError, outside the try; KeyboardInterrupt ends the server and main
\* returns 0; any other exception of the server makes main return 1.
StartupAnnounce ==
    /\ startup.pc = "announce"
    /\ LET locals == startup.locals \cup {"cert_files", "aws_configured"} IN
       startup' =
         IF "claude_key" \in locals \cup StartupGlobals
         THEN [startup EXCEPT !.locals = locals,
                              !.server = "started",
                              !.pc = "done",
                              !.result = IF startup.env.serving = "KeyboardInterrupt"
                                         THEN "returned 0" ELSE "returned 1"]
         ELSE [startup EXCEPT !.locals = locals,
                              !.pc = "done",
                              !.result = "raised NameError"]
    /\ StartupFrame

NextStartup ==
    \/ StartupDependencies
    \/ StartupRequirements
    \/ StartupClaudeApi
    \/ StartupAnnounce

SpecStartup == InitStartup /\ [][NextStartup]_vars

\* ===================================================================== claims
\* The phase of the session machine, read off the simulator's fields.
Phase(s) ==
    IF ~s.gaming_session THEN "IDLE"
    ELSE IF s.cooling_phase THEN "COOLDOWN"
    ELSE IF s.session_time <= GAMING_WARMUP_TIME THEN "WARMUP"
    ELSE "ACTIVE"

\* The session in progress is the one whose trial succeeded on tick 0: its age
\* is the number of ticks made since.
StartedOnTick0 ==
    /\ sim.gaming_session
    /\ iteration_count >= 1
    /\ sim.session_time = iteration_count - 1

\* C1 (SpecDynamics): in the initial state and after every tick, each of the
\* four temperatures lies within its [min, max] bound and each of the three fan
\* speeds within [0, max_rpm].
C1_WithinBounds ==
    /\ sim.cpu_temp >= COMPONENT_MIN_TEMPS.cpu /\ sim.cpu_temp <= COMPONENT_MAX_TEMPS.cpu
    /\ sim.gpu_temp >= COMPONENT_MIN_TEMPS.gpu /\ sim.gpu_temp <= COMPONENT_MAX_TEMPS.gpu
    /\ sim.ssd_temp >= COMPONENT_MIN_TEMPS.ssd /\ sim.ssd_temp <= COMPONENT_MAX_TEMPS.ssd
    /\ sim.motherboard_temp >= COMPONENT_MIN_TEMPS.motherboard
    /\ sim.motherboard_temp <= COMPONENT_MAX_TEMPS.motherboard
    /\ sim.cpu_fan_rpm >= 0 /\ sim.cpu_fan_rpm <= FAN_MAX_RPM.cpu_fan
    /\ sim.gpu_fan_rpm >= 0 /\ sim.gpu_fan_rpm <= FAN_MAX_RPM.gpu_fan
    /\ sim.case_fan_rpm >= 0 /\ sim.case_fan_rpm <= FAN_MAX_RPM.case_fan

\* C1 witness: a tick has clamped the GPU temperature to its maximum and the GPU
\* fan to its maximum RPM.
C1_Witness ==
    /\ iteration_count > 0
    /\ sim.gpu_temp = COMPONENT_MAX_TEMPS.gpu
    /\ sim.gpu_fan_rpm = FAN_MAX_RPM.gpu_fan

\* C2 (SpecSession): whenever gaming_session is false the intensity is exactly
\* 0, in the simulator and in the reading it emits.
C2_IdleIntensityZero ==
    /\ ~sim.gaming_session => sim.gaming_intensity = 0
    /\ ~sensor_data.gaming_session => sensor_data.gaming_intensity = 0

\* C2 witness: a session has run to its end and the machine is idle again.
C2_Witness ==
    /\ ~sim.gaming_session
    /\ sim.cooling_phase
    /\ iteration_count > 0
    /\ ~sensor_data.gaming_session

\* C3 (SpecSession), as claimed: the intensity lies in [0, 1] in every state,
\* and in [0, 0.9] after every warmup tick.
C3_IntensityInRange ==
    /\ sim.gaming_intensity >= 0
    /\ sim.gaming_intensity <= 1000
    /\ (Phase(sim) = "WARMUP" /\ sim.session_time >= 1) => sim.gaming_intensity <= 900

\* C4 (Spec), as claimed: the step in which a sink fails goes on to the next
\* sink of the iteration (console, then publish, then local log, then the end
\* of the iteration), and at the end of the iteration every sink that is set up
\* and did not fail holds the reading of the iteration.
C4_SinkFailureSkipped ==
    [][ /\ ("console" \in tick_fail' \ tick_fail) => pc' = "publish"
        /\ ("publish" \in tick_fail' \ tick_fail) => pc' = "log"
        /\ ("log" \in tick_fail' \ tick_fail) => pc' = "sleep"
        /\ pc' = "sleep" =>
              /\ "console" \notin tick_fail' =>
                    (console' # <<>> /\ console'[Len(console')] = sensor_data')
              /\ (aws_connected' /\ "publish" \notin tick_fail') =>
                    (published' # <<>> /\ published'[Len(published')] = sensor_data')
              /\ (local_logging' /\ "log" \notin tick_fail') =>
                    (log_file' # <<>> /\ log_file'[Len(log_file')] = Record(sensor_data'))
      ]_vars

\* C5 (Spec), as claimed: the loop is left only on the interrupt signal.
C5_EndsOnlyOnInterrupt == pc \in EndPcs => stop_cause = "interrupt"

\* The calls the finally block has made, in order, and the calls it owes.
ShutdownCalls == [i \in 1..Len(shutdown) |-> shutdown[i].call]
ShutdownOwed ==
    (IF aws_connected THEN <<"disconnect">> ELSE <<>>)
        \o (IF local_logging THEN <<"finalize_local_log">> ELSE <<>>)
CallOk(c) == \A i \in 1..Len(shutdown) : shutdown[i].call = c => shutdown[i].ok
LogClosed ==
    /\ log_file # <<>>
    /\ log_file[Len(log_file)] = CloseBracket
    /\ Cardinality({i \in 1..Len(log_file) : log_file[i] = CloseBracket}) = 1

C7_SameReadings == sensor_data = sensor_data2

C9_BackToIdleIn200Ticks ==
    (iteration_count = GAMING_WARMUP_TIME + GAMING_DURATION + 1000 \div GAMING_COOLDOWN_RATE)
        => ~(StartedOnTick0 /\ sensor_data.gaming_session)

\* C9, amended: while the session started on tick 0 is in progress every reading
\* shows gaming_session true, and the tick that returns it to idle is tick 200
\* or tick 201 (30 + 120 + 50, or one later), whatever the jitter.
C9_SessionSpan ==
    [][ /\ StartedOnTick0 => sensor_data.gaming_session
        /\ (StartedOnTick0 /\ ~sim'.gaming_session) =>
              /\ ~sensor_data'.gaming_session
              /\ iteration_count \in
                   { GAMING_WARMUP_TIME + GAMING_DURATION + 1000 \div GAMING_COOLDOWN_RATE,
                     GAMING_WARMUP_TIME + GAMING_DURATION + 1000 \div GAMING_COOLDOWN_RATE + 1 }
      ]_vars

\* C9 witness: the session started on tick 0 has ended on tick 200 (201
\* iterations made); no later session can have ended by then.
C9_Witness ==
    /\ iteration_count = GAMING_WARMUP_TIME + GAMING_DURATION + 1000 \div GAMING_COOLDOWN_RATE + 1
    /\ ~sim.gaming_session
    /\ sim.cooling_phase
    /\ ~sensor_data.gaming_session

\* C10 (SpecSession): a tick keeps the phase or moves it one step along
\* IDLE -> WARMUP -> ACTIVE -> COOLDOWN -> IDLE, and a session in progress is
\* never restarted (its age never goes back while it lasts).
C10_PhaseOrder ==
    [][ /\ \/ Phase(sim') = Phase(sim)
           \/ <<Phase(sim), Phase(sim')>> \in
                { <<"IDLE", "WARMUP">>, <<"WARMUP", "ACTIVE">>,
                  <<"ACTIVE", "COOLDOWN">>, <<"COOLDOWN", "IDLE">> }
        /\ (sim.gaming_session /\ sim'.gaming_session) =>
              sim'.session_time = sim.session_time + 1
      ]_vars

\* C10 witness: a second session is in its warmup after the first went through
\* all four phases.
C10_Witness ==
    /\ Phase(sim) = "WARMUP"
    /\ iteration_count > GAMING_WARMUP_TIME + GAMING_DURATION + 1000 \div GAMING_COOLDOWN_RATE

\* The order of the statements of one iteration of the loop.
LoopOrder ==
    { <<"update_gaming_session", "simulate_temperature_changes">>,
      <<"simulate_temperature_changes", "calculate_fan_speeds">>,
      <<"calculate_fan_speeds", "get_sensor_data">>,
      <<"get_sensor_data", "console">>,
      <<"console", "publish">>,
      <<"publish", "log">>,
      <<"log", "sleep">>,
      <<"sleep", "update_gaming_session">> }

\* The reading shows the simulator s at wall-clock time now, field by field.
ReadingShows(reading, s, now) ==
    /\ reading.timestamp = now
    /\ reading.cpu_temp = Round1(s.cpu_temp)
    /\ reading.gpu_temp = Round1(s.gpu_temp)
    /\ reading.ssd_temp = Round1(s.ssd_temp)
    /\ reading.motherboard_temp = Round1(s.motherboard_temp)
    /\ reading.cpu_fan_rpm = IntRpm(s.cpu_fan_rpm)
    /\ reading.gpu_fan_rpm = IntRpm(s.gpu_fan_rpm)
    /\ reading.case_fan_rpm = IntRpm(s.case_fan_rpm)
    /\ reading.gaming_session = s.gaming_session
    /\ reading.gaming_intensity = Round2(s.gaming_intensity)

\* Every sink that is set up has been handed the reading of the iteration, or
\* has failed on it.
SinksServed ==
    /\ console # <<>> /\ console[Len(console)] = sensor_data
    /\ (aws_connected /\ connected) =>
          \/ "publish" \in tick_fail
          \/ published # <<>> /\ published[Len(published)] = sensor_data
    /\ local_logging =>
          \/ "log" \in tick_fail
          \/ log_file # <<>> /\ log_file[Len(log_file)] = Record(sensor_data)

\* C11 (Spec): within an iteration the statements run in the order session
\* update, temperature update, fan update, snapshot, sinks; the simulator
\* changes only in the three update statements and in that order, the reading
\* is assembled after them and shows the state they left, the sinks are handed
\* that reading while the state is still the one it shows, and the next
\* iteration's update begins only after the sinks of this one were served.
C11_TickOrder ==
    [][ /\ (pc \in LoopPcs /\ pc' # pc) => (pc' = "cleanup" \/ <<pc, pc'>> \in LoopOrder)
        /\ sim' # sim =>
              /\ pc \in {"update_gaming_session", "simulate_temperature_changes",
                         "calculate_fan_speeds"}
              /\ <<pc, pc'>> \in LoopOrder
        /\ sensor_data' # sensor_data =>
              /\ pc = "get_sensor_data"
              /\ ReadingShows(sensor_data', sim, clock)
        /\ console' # console =>
              /\ pc = "console"
              /\ console' = Append(console, sensor_data)
              /\ ReadingShows(sensor_data, sim, clock)
        /\ published' # published =>
              /\ pc = "publish"
              /\ published' = Append(published, sensor_data)
              /\ ReadingShows(sensor_data, sim, clock)
        /\ (log_file' # log_file /\ pc \in LoopPcs) =>
              /\ pc = "log"
              /\ log_file'[Len(log_file')] = Record(sensor_data)
              /\ ReadingShows(sensor_data, sim, clock)
        /\ (pc' = "update_gaming_session" /\ pc \in LoopPcs) =>
              /\ pc = "sleep"
              /\ SinksServed
              /\ iteration_count' = iteration_count + 1
      ]_vars

\* C11 witness: the second iteration is about to begin; the first one started a
\* session, and its reading, which shows the session, reached all three sinks.
C11_Witness ==
    /\ pc = "update_gaming_session"
    /\ iteration_count = 1
    /\ sim.gaming_session
    /\ sensor_data.gaming_session
    /\ console = <<sensor_data>>
    /\ published = <<sensor_data>>
    /\ log_file = <<OpenBracket, Record(sensor_data)>>

\* The readings of the complete records of a text, in the order of the text.
Records(text) ==
    LET recs == SelectSeq(text, LAMBDA c : c.tok \in {"record", "line"})
    IN  [i \in 1..Len(recs) |-> recs[i].data]

\* The text is the opening bracket and complete records with a comma between
\* each two, with or without a comma after the last.
OpenLog(text) ==
    /\ text # <<>>
    /\ text[1] = OpenBracket
    /\ \A i \in 2..Len(text) :
          text[i] = (IF i % 2 = 0 THEN Record(text[i].data) ELSE Separator)

\* The text is such a log without trailing comma, closed by its bracket.
ClosedLog(text) ==
    /\ Len(text) >= 2
    /\ text[Len(text)] = CloseBracket
    /\ OpenLog(SubSeq(text, 1, Len(text) - 1))
    /\ Len(text) > 2 => text[Len(text) - 1].tok = "record"

\* The history is the last n records of the text, in order.
HoldsLast(history, text, n) ==
    LET recs == Records(text) IN
    /\ Len(history) = n
    /\ \A i \in 1..n : history[i] = recs[Len(recs) - n + i]

C13_TornTailLoadsRest ==
    ( /\ Len(content) >= 2
      /\ content[Len(content)].tok = "torn"
      /\ OpenLog(SubSeq(content, 1, Len(content) - 1)) )
        => HoldsLast(sensor_history, content, Len(Records(content)))

\* C14 (SpecReader), as claimed: a log in which exactly one record fails to
\* parse (a torn record with complete records after it) is loaded as all its
\* other records.
C14_BadRecordSkipped ==
    ( /\ Cardinality({i \in DOMAIN content : content[i].tok = "torn"}) = 1
      /\ content[Len(content)].tok # "torn"
      /\ Records(content) # <<>> )
        => HoldsLast(sensor_history, content, Len(Records(content)))

\* C15 (Spec), as claimed: when main is done and finalize_local_log has
\* appended its bracket, the log is a JSON array (it parses as it stands), and
\* its elements are the readings appended, in tick order.
C15_LogWellFormed ==
    (pc = "done" /\ local_logging /\ CallOk("finalize_local_log")) =>
        /\ JsonLoads(log_file).ok
        /\ JsonLoads(log_file).data = Records(log_file)
        /\ \A i, j \in DOMAIN Records(log_file) :
              i < j => Records(log_file)[i].timestamp < Records(log_file)[j].timestamp

\* ------------------------------------------------------------- C16 .. C20
\* generate_fan_curves has been called (by either caller) and has come back.
FanCurvesCalled == returned # EmptyDict /\ returned.value # NoDataError

\* The readings the call has aggregated.
Aggregated ==
    IF returned.call = "generate_ai_fan_curves"
    THEN Sample(sensor_history) ELSE sensor_history

\* A structurally valid recommendation: a curve of exactly 5 setpoints, none
\* negative, for each of the three fans.
WellFormed(value) ==
    /\ "fan_curves" \in DOMAIN value
    /\ DOMAIN value.fan_curves = Fans
    /\ \A fan \in Fans :
          /\ Len(value.fan_curves[fan]) = 5
          /\ \A i \in 1..5 : value.fan_curves[fan][i] >= 0

\* C16: for each of the three preferences and every summary, the empty one
\* included, what generate_fan_curves returns has exactly 5 setpoints, all
\* >= 0, for each of cpu_fan, gpu_fan and case_fan.
C16_AlwaysWellFormed ==
    (FanCurvesCalled /\ preference \in Preferences) => WellFormed(returned.value)

\* The failures of the remote path: transport error, timeout, a status other
\* than 200, an answer without content[0].text, a text that holds no JSON.
RemoteFailed ==
    \/ advisory.kind \in {"connection_error", "silent", "status", "bad_envelope"}
    \/ advisory.kind = "text" /\ advisory.text.json \in {"none", "invalid"}

\* C17: on every failure of the remote path the caller gets the local
\* policy's recommendation for the same summary and preference, and no
\* error; the request carries a timeout.
C17_FailureFallsBack ==
    (FanCurvesCalled /\ preference \in Preferences
        /\ ~claude_optimizer.use_simulation /\ RemoteFailed)
    => /\ returned.value = GenerateSimulatedCurves(analysis, preference)
       /\ returned.value.ai_generated = FALSE
       /\ WellFormed(returned.value)
       /\ RequestTimeout > 0

C17_Witness ==
    /\ returned # EmptyDict
    /\ returned.call = "generate_ai_fan_curves"
    /\ ~claude_optimizer.use_simulation
    /\ advisory.kind = "status"
    /\ preference = "most_quiet"
    /\ Len(sensor_history) = SampleSize
    /\ "ai_generated" \in DOMAIN returned.value
    /\ returned.value.ai_generated = FALSE
    /\ ai_recommendations = returned.value

\* The answer is JSON of the wrong shape: no fan_curves, a fan missing from
\* it, or a curve that is not 5 setpoints.
WrongShape ==
    /\ advisory.kind = "text"
    /\ advisory.text.json = "object"
    /\ \/ ~advisory.text.has_fan_curves
       \/ DOMAIN advisory.text.fan_curves # Fans
       \/ \E fan \in DOMAIN advisory.text.fan_curves :
             Len(advisory.text.fan_curves[fan]) # 5

\* C18: an answer of the wrong shape is treated as a failure: the result is
\* the local policy's recommendation, never the malformed curves.
C18_WrongShapeFallsBack ==
    (FanCurvesCalled /\ preference \in Preferences
        /\ ~claude_optimizer.use_simulation /\ WrongShape)
    => returned.value = GenerateSimulatedCurves(analysis, preference)

\* The exact comparison of an average with a threshold, in the units of the
\* readings: sum > threshold * n.
ColumnSum(window, key) == Sum([i \in DOMAIN window |-> window[i][key]])
AverageAbove(window, key, threshold) ==
    ColumnSum(window, key) > threshold * Len(window)

TempChannels ==
    {<<"cpu", "cpu_temp">>, <<"gpu", "gpu_temp">>, <<"ssd", "ssd_temp">>,
     <<"motherboard", "motherboard_temp">>}
FanChannels ==
    {<<"cpu_fan", "cpu_fan_rpm">>, <<"gpu_fan", "gpu_fan_rpm">>,
     <<"case_fan", "case_fan_rpm">>}

\* C21: the summary of a single reading has std = 0 for cpu, gpu, ssd and
\* motherboard, avg = min = max = the value of the reading for every channel
\* and time_span_hours = 0; the summary of two or more readings has
\* time_span_hours = (max timestamp - min timestamp) / 3600, whatever the
\* order of the readings.
C21_SingleReadingAndSpan ==
    (FanCurvesCalled /\ Aggregated # <<>>) =>
        LET window == Aggregated
            n == Len(window)
        IN  /\ analysis.data_points = n
            /\ n = 1 =>
                  /\ \A ch \in TempChannels :
                        /\ analysis[ch[1]].std = 0
                        /\ analysis[ch[1]].avg = 100 * window[1][ch[2]]
                        /\ analysis[ch[1]].min = 100 * window[1][ch[2]]
                        /\ analysis[ch[1]].max = 100 * window[1][ch[2]]
                  /\ \A ch \in FanChannels :
                        /\ analysis.fans[ch[1]].avg = 1000 * window[1][ch[2]]
                        /\ analysis.fans[ch[1]].min = 1000 * window[1][ch[2]]
                        /\ analysis.fans[ch[1]].max = 1000 * window[1][ch[2]]
                  /\ analysis.time_span_hours = 0
            /\ n >= 2 =>
                  \E i, j \in 1..n :
                     /\ \A k \in 1..n : window[j].timestamp <= window[k].timestamp
                     /\ \A k \in 1..n : window[k].timestamp <= window[i].timestamp
                     /\ analysis.time_span_hours =
                            window[i].timestamp - window[j].timestamp

\* C21 witness: a single reading has been aggregated.
C21_Witness ==
    /\ FanCurvesCalled
    /\ Len(sensor_history) = 1
    /\ analysis.data_points = 1
    /\ analysis.cpu.std = 0
    /\ analysis.cpu.avg = analysis.cpu.max
    /\ analysis.time_span_hours = 0

\* C22 (SpecReader), as claimed: after every load of the log the history
\* holds at most the retention bound of 1000 readings, and they are the most
\* recent readings of the log in log order, on the normal parse path and on
\* the fallback path alike.
C22_RetentionOnBothPaths ==
    content # <<>> =>
        /\ Len(sensor_history) <= RetentionBound
        /\ HoldsLast(sensor_history, content,
                     Min(Len(Records(content)), RetentionBound))

\* A well-formed reading: a dict with every key of a reading.
IsReading(d) == DOMAIN d = {Keys[i] : i \in DOMAIN Keys}

\* C23 (SpecDashboard), as claimed: each query (the current reading, the
\* history of the last minutes, the recommendation for a preference of the
\* table) is answered with a well-formed reading, history or recommendation
\* and never with an error, whatever state the log is in.
C23_QueriesWellFormed ==
    returned # EmptyDict =>
        /\ returned.call = "api_current_data" =>
              /\ returned.value.status = 200
              /\ IsReading(returned.value.current_data)
        /\ (returned.call = "api_history_data" /\ returned.value.status = 200) =>
              \A i \in DOMAIN returned.value.history :
                 IsReading(returned.value.history[i])
        /\ (returned.call = "api_ai_recommendations" /\ preference \in Preferences) =>
              /\ returned.value.status = 200
              /\ returned.value.success
              /\ WellFormed(returned.value.recommendations)

\* setup_local_logging has returned False: main is past the call and the flag
\* is off (ENABLE_LOCAL_LOGGING is True, so only a failed open turns it off).
SetupFailed == pc # "setup_local_logging" /\ ~local_logging

\* An append of this iteration has failed.
AppendFailed == "log" \in tick_fail

\* C24 (Spec), as claimed: when the log file cannot be created at startup the
\* driver stops there and never enters the tick loop, while a failed append
\* inside the loop never ends the run.
C24_SetupFailureIsFatal ==
    /\ SetupFailed => pc \notin LoopPcs
    /\ AppendFailed => stop_cause # "error"

\* The speed of a fan and the target its curve gives at the temperatures of
\* the simulator.
FanRpm(self, fan) ==
    CASE fan = "cpu_fan" -> self.cpu_fan_rpm
      [] fan = "gpu_fan" -> self.gpu_fan_rpm
      [] fan = "case_fan" -> self.case_fan_rpm

FanTarget(self, fan) ==
    CASE fan = "cpu_fan" -> CpuFanTarget(self.cpu_temp)
      [] fan = "gpu_fan" -> GpuFanTarget(self.gpu_temp)
      [] fan = "case_fan" -> CaseFanTarget((self.cpu_temp + self.gpu_temp) \div 2)

Abs(x) == IF x < 0 THEN -x ELSE x

\* The smallest gap, in thousandths of an RPM, whose 15% is a whole
\* thousandth: below it the integer division of the model decides the step.
FanResolution == 7

\* One tick of a fan from rpm to next with the target held: the step is 15% of
\* the gap (to the thousandth of an RPM), the target is not reached, not
\* passed, and the gap is smaller afterwards.
ApproachesTarget(rpm, next, target) ==
    /\ 100 * (next - rpm) <= 15 * (target - rpm)
    /\ 15 * (target - rpm) < 100 * (next - rpm) + 100
    /\ next # target
    /\ (rpm < target) => (next < target)
    /\ (rpm > target) => (next > target)
    /\ Abs(target - next) < Abs(target - rpm)

\* The target of the fan can be reached: it lies within the range of the fan.
TargetInRange(self, fan) ==
    FanTarget(self, fan) >= 0 /\ FanTarget(self, fan) <= FAN_MAX_RPM[fan]

\* C25 (SpecFans), as claimed: with the temperature held and no jitter every
\* tick moves each fan 15% of the remaining gap toward its target, never onto
\* it in one tick, never past it, and the gap shrinks on every tick.
C25_ApproachAsClaimed ==
    [][\A fan \in Fans :
          Abs(FanTarget(sim, fan) - FanRpm(sim, fan)) >= FanResolution =>
              ApproachesTarget(FanRpm(sim, fan), FanRpm(sim', fan), FanTarget(sim, fan))]_vars

\* C25 (SpecFans), amended: the same for every fan whose target lies within
\* [0, fan_max_rpm]; a fan whose target lies beyond a bound of its range takes
\* the same step cut at that bound, so it never moves away from the target
\* and rests at the bound once there.
C25_ApproachWithinRange ==
    [][\A fan \in Fans :
          LET rpm == FanRpm(sim, fan)
              next == FanRpm(sim', fan)
              target == FanTarget(sim, fan)
          IN  Abs(target - rpm) >= FanResolution =>
                IF TargetInRange(sim, fan)
                THEN ApproachesTarget(rpm, next, target)
                ELSE /\ next = Clamp(0, FAN_MAX_RPM[fan], FanApproach(rpm, target))
                     /\ Abs(target - next) <= Abs(target - rpm)
                     /\ next # target]_vars

\* Several ticks at a held temperature have passed and the CPU fan, started
\* at its idle speed with a target within its range, is still on its way.
C25_Witness ==
    /\ iteration_count >= 3
    /\ sim.cpu_temp = 72000
    /\ TargetInRange(sim, "cpu_fan")
    /\ sim.cpu_fan_rpm > FAN_IDLE_SPEEDS.cpu_fan
    /\ sim.cpu_fan_rpm < CpuFanTarget(sim.cpu_temp)

\* The gaming state of the simulator: the four fields update_gaming_session
\* reads and writes.
GamingState(s) ==
    <<s.gaming_session, s.session_time, s.gaming_intensity, s.cooling_phase>>

\* C26 (SpecSession): a session starts only from IDLE; the tick that starts it
\* leaves gaming_session true, session_time 0, the intensity 0.1 and
\* cooling_phase false; an idle tick whose trial fails leaves the four gaming
\* fields as they were.
C26_StartFromIdle ==
    [][ /\ (sim'.gaming_session /\ sim'.session_time = 0) => ~sim.gaming_session
        /\ (~sim.gaming_session /\ sim'.gaming_session) =>
              GamingState(sim') = <<TRUE, 0, 100, FALSE>>
        /\ ~sim.gaming_session =>
              \A q \in Quantiles :
                 IF StartsSession(q)
                 THEN GamingState(UpdateGamingSession(sim, q)) = <<TRUE, 0, 100, FALSE>>
                 ELSE GamingState(UpdateGamingSession(sim, q)) = GamingState(sim)
        /\ (~sim.gaming_session /\ ~sim'.gaming_session) =>
              GamingState(sim') = GamingState(sim)
      ]_vars

\* C26 witness: a second session has just started, from the idle state the
\* first one left behind (cooling_phase still set) and after a failed trial.
C26_Witness ==
    /\ iteration_count > GAMING_WARMUP_TIME + GAMING_DURATION + 1000 \div GAMING_COOLDOWN_RATE + 2
    /\ GamingState(sim) = <<TRUE, 0, 100, FALSE>>

\* What a tick of a session not yet cooling does, seen on the state before
\* and after it: a warmup tick draws the intensity from the ramp, an active
\* tick from the two sinusoids, and the tick that begins the cooldown sets
\* cooling_phase and leaves the intensity alone.
WarmupTick(before, after) ==
    /\ ~after.cooling_phase
    /\ \E q \in Quantiles :
          after.gaming_intensity = WarmupIntensity(before.session_time + 1, q)

ActiveTick(before, after) ==
    /\ ~after.cooling_phase
    /\ \E q \in Quantiles :
          after.gaming_intensity = ActiveIntensity(before.session_time + 1, q)

CooldownBegins(before, after) ==
    /\ after.cooling_phase
    /\ after.gaming_session
    /\ after.gaming_intensity = before.gaming_intensity

\* C27 (SpecSession): in a session not yet cooling, the tick whose age after
\* the increment is at most 30 is a warmup tick, the tick whose age is above
\* 30 and at most 150 is an active tick, and the cooldown begins exactly on
\* the first tick whose age is above 150 (age 151), the intensity staying at
\* its last active value.  The three ranges part the ages, so each kind of
\* tick happens at the ages of its range and at no other.
C27_PhaseByAge ==
    [][ (sim.gaming_session /\ ~sim.cooling_phase) =>
          LET age == sim.session_time + 1 IN
          /\ sim'.session_time = age
          /\ age <= GAMING_WARMUP_TIME => WarmupTick(sim, sim')
          /\ (age > GAMING_WARMUP_TIME /\ age <= GAMING_WARMUP_TIME + GAMING_DURATION)
                => ActiveTick(sim, sim')
          /\ CooldownBegins(sim, sim') <=> age > GAMING_WARMUP_TIME + GAMING_DURATION
          /\ CooldownBegins(sim, sim') =>
                /\ age = GAMING_WARMUP_TIME + GAMING_DURATION + 1
                /\ \E q \in Quantiles :
                      sim.gaming_intensity = ActiveIntensity(age - 1, q)
      ]_vars

\* C27 witness: the cooldown has just begun, on the tick of age 151, after
\* the last warmup tick (age 30) and the last active tick (age 150).
C27_Witness ==
    /\ sim.gaming_session
    /\ sim.cooling_phase
    /\ sim.session_time = GAMING_WARMUP_TIME + GAMING_DURATION + 1

\* C28 (SpecSession): every ACTIVE tick leaves the intensity within
\* [0.5, 1.0], and the tick that begins the cooldown finds and leaves it
\* there.
C28_ActiveClamped ==
    [][ /\ Phase(sim') = "ACTIVE" =>
              (sim'.gaming_intensity >= 500 /\ sim'.gaming_intensity <= 1000)
        /\ (Phase(sim) # "COOLDOWN" /\ Phase(sim') = "COOLDOWN") =>
              /\ Phase(sim) = "ACTIVE"
              /\ sim'.gaming_intensity >= 500 /\ sim'.gaming_intensity <= 1000
      ]_vars

\* C28 witness: an active tick has been clamped, at 1.0 or at 0.5: the sum of
\* the sinusoids and the jitter lay outside the range.
C28_Witness ==
    /\ Phase(sim) = "ACTIVE"
    /\ sim.gaming_intensity \in {500, 1000}
    /\ \E q \in Quantiles :
          LET raw == ActiveIntensityUnclamped(sim.session_time, q)
          IN  (raw < 500 \/ raw > 1000) /\ sim.gaming_intensity = ActiveIntensity(sim.session_time, q)

\* The longest cooldown: from intensity 1.0 at 0.02 a tick.
CooldownTicks == 1000 \div GAMING_COOLDOWN_RATE

\* The ticks of the longest session: warmup, intense phase, the tick that
\* begins the cooldown, the cooldown.
SessionTicks == GAMING_WARMUP_TIME + GAMING_DURATION + 1 + CooldownTicks

\* A session is in progress that started early enough for the run to hold
\* all its ticks.
SessionFitsRun ==
    /\ sim.gaming_session
    /\ iteration_count - sim.session_time + SessionTicks <= MaxTicks

\* C29 (SpecSessionLive): every COOLDOWN tick lowers the intensity by exactly the
\* decrement, floored at 0 and never negative; the tick on which it reaches 0
\* returns the machine to IDLE with gaming_session false and session_time 0;
\* a session is never older than 30 + 120 + 50 ticks and is back in IDLE on
\* the tick after; and, the loop going on, every session that starts returns
\* to IDLE.
C29_CooldownToIdle ==
    [][ /\ Phase(sim) = "COOLDOWN" =>
              /\ sim'.gaming_intensity = Max(0, sim.gaming_intensity - GAMING_COOLDOWN_RATE)
              /\ sim'.gaming_intensity >= 0
              /\ sim'.gaming_intensity < sim.gaming_intensity
              /\ IF sim'.gaming_intensity = 0
                 THEN Phase(sim') = "IDLE" /\ ~sim'.gaming_session /\ sim'.session_time = 0
                 ELSE Phase(sim') = "COOLDOWN"
        /\ sim.gaming_session =>
              /\ sim.session_time <= GAMING_WARMUP_TIME + GAMING_DURATION + CooldownTicks
              /\ sim.session_time = GAMING_WARMUP_TIME + GAMING_DURATION + CooldownTicks
                    => Phase(sim') = "IDLE"
      ]_vars
    /\ (SessionFitsRun ~> Phase(sim) = "IDLE")

\* C29 witness: a session has gone through its whole cooldown and the tick
\* that brought the intensity to 0 has returned the machine to IDLE.
C29_Witness ==
    /\ Phase(sim) = "IDLE"
    /\ sim.cooling_phase
    /\ sim.gaming_intensity = 0
    /\ sim.session_time = 0
    /\ iteration_count >= GAMING_WARMUP_TIME + GAMING_DURATION + CooldownTicks

\* C30 (SpecSession): session_time is 0 in every IDLE state, and every tick
\* that begins with a session in progress and does not end in IDLE adds
\* exactly 1 to it, in warmup, in the intense phase, on the tick that begins
\* the cooldown and in the cooldown.
C30_AgeCounts ==
    [][ /\ Phase(sim) = "IDLE" => sim.session_time = 0
        /\ Phase(sim') = "IDLE" => sim'.session_time = 0
        /\ (Phase(sim) # "IDLE" /\ Phase(sim') # "IDLE") =>
              sim'.session_time = sim.session_time + 1
      ]_vars

\* C30 witness: a session has been counted through all its phases and the
\* machine is idle again, its age back at 0, with ticks made since.
C30_Witness ==
    /\ Phase(sim) = "IDLE"
    /\ sim.cooling_phase
    /\ sim.session_time = 0
    /\ iteration_count > SessionTicks + 1

\* --- C31 .. C37
\* C31 (SpecSession), as claimed: cooling_phase is true only in the COOLDOWN
\* phase of a session in progress; in every IDLE state, the one a finished
\* session leaves included, it is false.
C31_CoolingOnlyInCooldown == ~sim.gaming_session => ~sim.cooling_phase

\* The average the case fan is driven by.
AvgTemp(self) == (self.cpu_temp + self.gpu_temp) \div 2

\* The averages of the temperatures of SpecCurves: every half degree, and the
\* last thousandth below each breakpoint of the case-fan curve.
AvgTemps ==
    {500 * h : h \in (2 * (COMPONENT_MIN_TEMPS.cpu \div 1000))
                       ..((COMPONENT_MAX_TEMPS.cpu + COMPONENT_MAX_TEMPS.gpu) \div 1000)}
      \cup JustBelow(CaseBreakpoints)

\* C32 (SpecCurves): the target of each fan is non-decreasing in the
\* temperature that drives it, over the whole range of that temperature and
\* across the breakpoints of its curve: no lower temperature has a higher
\* target than the one of the state, no higher temperature a lower one.
C32_TargetsMonotone ==
    /\ \A t \in CpuTemps :
          /\ t <= sim.cpu_temp => CpuFanTarget(t) <= CpuFanTarget(sim.cpu_temp)
          /\ t >= sim.cpu_temp => CpuFanTarget(t) >= CpuFanTarget(sim.cpu_temp)
    /\ \A t \in GpuTemps :
          /\ t <= sim.gpu_temp => GpuFanTarget(t) <= GpuFanTarget(sim.gpu_temp)
          /\ t >= sim.gpu_temp => GpuFanTarget(t) >= GpuFanTarget(sim.gpu_temp)
    /\ \A t \in AvgTemps :
          /\ t <= AvgTemp(sim) => CaseFanTarget(t) <= CaseFanTarget(AvgTemp(sim))
          /\ t >= AvgTemp(sim) => CaseFanTarget(t) >= CaseFanTarget(AvgTemp(sim))

\* C32 witness: the fans have been driven from temperatures a thousandth of a
\* degree below a breakpoint of each curve (GPU below 40, where its curve
\* steps up; CPU below 45; their average below 45).
C32_Witness ==
    /\ iteration_count = 1
    /\ sim.gpu_temp = 39999
    /\ sim.cpu_temp = 44999
    /\ GpuFanTarget(sim.gpu_temp) < GpuFanTarget(sim.gpu_temp + 1)
    /\ sim.gpu_fan_rpm # FAN_IDLE_SPEEDS.gpu_fan

\* C33 (SpecDashboard), as claimed: after every load, whatever its path and
\* whatever has become of the file since the load before (the simulator
\* started anew and cut it back to its opening bracket), current_sensor_data
\* is the last reading of sensor_history, and is empty when the history is.
C33_CurrentIsLast ==
    IF sensor_history # <<>>
    THEN current_sensor_data = sensor_history[Len(sensor_history)]
    ELSE current_sensor_data = EmptyDict

\* C34 (SpecMonitor), as claimed: whatever statement of the load the monitor
\* thread is at, the two globals a route reads are in step: the current
\* reading is the last element of a history that is not empty.
C34_GlobalsInStep ==
    sensor_history # <<>> =>
        current_sensor_data = sensor_history[Len(sensor_history)]

\* C35 (SpecStartup), as claimed: once main has ended, if both checks
\* succeeded the server was started, with or without an API key and with or
\* without certificates; and main has returned 1 only if a check failed or
\* the server raised.
C35_ChecksPassedStartsServer ==
    startup.pc = "done" =>
        /\ (startup.dependencies /\ startup.requirements) => startup.server = "started"
        /\ startup.result = "returned 1" =>
              \/ ~startup.dependencies
              \/ ~startup.requirements
              \/ (startup.server = "started" /\ startup.env.serving = "Exception")

\* The remote call answered with status 200 and a text whose braces hold a
\* JSON object.
AnsweredAndParsed ==
    /\ ~claude_optimizer.use_simulation
    /\ advisory.kind = "text"
    /\ advisory.text.json = "object"

\* The recommendation is the local policy's: the optimizer is in simulation
\* mode, or the remote path failed, or the result has the shape the local
\* policy gives it (advice texts, no claude_analysis).
FromLocalPolicy ==
    \/ claude_optimizer.use_simulation
    \/ RemoteFailed
    \/ "recommendations" \in DOMAIN returned.value

C36_FallbackWitness ==
    /\ returned # EmptyDict
    /\ AnsweredAndParsed
    /\ advisory.text.analysis = "text"
    /\ "ai_generated" \in DOMAIN returned.value
    /\ ~returned.value.ai_generated

\* C37 (SpecRecommender), as claimed: every setpoint of a recommendation of
\* the local policy, for each of the three preferences and every summary,
\* bumped or not, is within the range the simulator clamps that fan to
\* (cpu_fan <= 4800, gpu_fan <= 4200, case_fan <= 2800 RPM; FAN_MAX_RPM is in
\* thousandths of an RPM).
C37_SetpointsWithinRange ==
    (FanCurvesCalled /\ preference \in Preferences
        /\ returned.value.ai_generated = FALSE)
    => \A fan \in Fans :
          \A i \in DOMAIN returned.value.fan_curves[fan] :
             returned.value.fan_curves[fan][i] * 1000 <= FAN_MAX_RPM[fan]

====
